---- MODULE Spec2Model ----
(***************************************************************************)
(* A model of the local-ai-assistant extension: the bounded undo history   *)
(* and the recency cache of src/src/lib/idb/models.ts, the transform       *)
(* pipeline of src/src/workers/transformWorker.ts, the analysis functions  *)
(* of src/src/workers/nlpWorker.ts, the message handling of the two        *)
(* workers, the action router of models.ts, sanitizeURL of                 *)
(* src/src/lib/utils/sanitizer.ts and the content script of                *)
(* src/src/content.                                                        *)
(*                                                                         *)
(* One specification per component; the variables of the other components  *)
(* rest at their initial value while one component runs.                   *)
(***************************************************************************)
EXTENDS Integers, Sequences, FiniteSets, TLC

VARIABLES
    \* ---- UndoStackManager (models.ts 126-159)
    maxActions,     \* this.maxActions, the constructor's argument
    stack,          \* the UndoStack value the caller holds: [siteKey, actions]
    lastPop,        \* what the last popAction returned as its action
    pushCount,      \* how many actions were pushed so far (their timestamps)
    pushedRun,      \* history: the actions pushed since the stack was last empty
    runPopped,      \* history: whether an action was popped during that run
    \* ---- LRUManager (models.ts 83-123)
    maxSize,        \* this.maxSize, the constructor's argument
    store,          \* the object store: cacheKey -> lastAccessedAt
    clock,          \* the last value Date.now() returned
    evictPc,        \* where evictOldest stands: "idle", "scanned", "done"
    toDelete,       \* evictOldest's local toDelete, what is left of it
    before,         \* history: the store as evictOldest's scan found it
    \* ---- performTransform called on its own (transformWorker.ts 196-255)
    tRequest,       \* the request
    tAborted,       \* signal.aborted when it is called
    tSettled,       \* undefined, or how the returned promise settled
    \* ---- a worker and its message port (transformWorker.ts 312-354,
    \*      nlpWorker.ts 165-195)
    worker,         \* the script the worker runs: "transform" or "nlp"
    inbox,          \* the messages posted to the worker and not yet dispatched
    sent,           \* how many messages were posted so far
    pc,             \* "idle", "awaiting" (onmessage at its await), "listener"
    event,          \* event.data of the message event being dispatched
    settled,        \* how the promise onmessage awaits has settled
    controllers,    \* activeAbortControllers / activeControllers: id -> controller
    abortedSignals, \* the controllers whose signal is aborted
    timers,         \* the pending timeouts: [id, controller] of their callback
    outbox,         \* the responses posted with self.postMessage, in order
    trace,          \* history: each dispatched message and what its handling did
    \* ---- the analysis functions called on their own (nlpWorker.ts 37-102)
    aText,          \* the text
    aMaxKeywords,   \* the maxKeywords argument, undefined when left out
    aResult,        \* undefined, or what the functions returned
    \* ---- the action router (models.ts 184-338) and the browser it calls
    siteWhitelist,  \* chrome.storage.local: the value stored under siteWhitelist
    origins,        \* chrome.permissions: the hostnames whose origins are granted
    calls,          \* the calls of actionRouter that have not returned, oldest first
    callCount,      \* how many calls were made; the reading of Date.now()
    returned,       \* history: each call that returned, with what it returned
    \* ---- sanitizeURL called on its own (sanitizer.ts 24-35)
    url,            \* the argument
    sanitized,      \* undefined, or what sanitizeURL returned
    \* ---- the content script on a page (contentBootstrap.ts, copyInterceptor.ts)
    location,       \* window.location: [protocol, hostname]
    bootPc,         \* "start", "checking", "checked", "initialized", "returned"
    permissions,    \* undefined, or what checkPermissions returned
    copyInterceptor, \* the CopyInterceptor and document's copy listeners
    scopedObserver  \* the ScopedObserver and the observers of document.body

undoVars == <<maxActions, stack, lastPop, pushCount, pushedRun, runPopped>>
cacheVars == <<maxSize, store, clock, evictPc, toDelete, before>>
pipelineVars == <<tRequest, tAborted, tSettled>>
workerVars ==
    <<worker, inbox, sent, pc, event, settled, controllers, abortedSignals,
      timers, outbox, trace>>
analysisVars == <<aText, aMaxKeywords, aResult>>
routerVars == <<siteWhitelist, origins, calls, callCount, returned>>
sanitizerVars == <<url, sanitized>>
bootstrapVars ==
    <<location, bootPc, permissions, copyInterceptor, scopedObserver>>
vars ==
    <<undoVars, cacheVars, pipelineVars, workerVars, analysisVars, routerVars,
      sanitizerVars, bootstrapVars>>
\* What an action of one component leaves alone: the other components.
notUndo ==
    <<cacheVars, pipelineVars, workerVars, analysisVars, routerVars, sanitizerVars,
      bootstrapVars>>
notCache ==
    <<undoVars, pipelineVars, workerVars, analysisVars, routerVars, sanitizerVars,
      bootstrapVars>>
notPipeline ==
    <<undoVars, cacheVars, workerVars, analysisVars, routerVars, sanitizerVars,
      bootstrapVars>>
notWorker ==
    <<undoVars, cacheVars, pipelineVars, analysisVars, routerVars, sanitizerVars,
      bootstrapVars>>
notAnalysis ==
    <<undoVars, cacheVars, pipelineVars, workerVars, routerVars, sanitizerVars,
      bootstrapVars>>
notRouter ==
    <<undoVars, cacheVars, pipelineVars, workerVars, analysisVars, sanitizerVars,
      bootstrapVars>>
notSanitizer ==
    <<undoVars, cacheVars, pipelineVars, workerVars, analysisVars, routerVars,
      bootstrapVars>>
notBootstrap ==
    <<undoVars, cacheVars, pipelineVars, workerVars, analysisVars, routerVars,
      sanitizerVars>>

\* null, told apart from every record.
Null == [null |-> TRUE]

Min(a, b) == IF a <= b THEN a ELSE b
Max(a, b) == IF a >= b THEN a ELSE b

\* Array.prototype.slice(b, e) on a sequence, for integer b and e of any sign.
Slice(s, b, e) ==
    LET len == Len(s)
        from == IF b < 0 THEN Max(len + b, 0) ELSE Min(b, len)
        to == IF e < 0 THEN Max(len + e, 0) ELSE Min(e, len)
    IN  IF to <= from THEN <<>> ELSE SubSeq(s, from + 1, to)

(***************************************************************************)
(* UndoStackManager                                                        *)
(***************************************************************************)
\* The default of the constructor's maxActions.
DefaultMaxActions == 10
\* The largest other capacity a manager is constructed with.
MaxCapacityTried == 3
\* How many actions are pushed at most: the default capacity and 5 more.
MaxPushes == 15

SiteKeys == {"a.example", "b.example"}

\* An UndoAction, identified by its timestamp.
UndoAction(t) == [actionType |-> "rewrite", timestamp |-> t]

\* pushAction without the truncation.
PushActionUnbounded(s, action) ==
    [s EXCEPT !.actions = <<action>> \o s.actions]

\* pushAction that adds the action at the tail before it truncates.
PushActionAtTail(s, action) ==
    [s EXCEPT !.actions = Slice(s.actions \o <<action>>, 0, maxActions)]

\* pushAction that leaves a full stack as it is.
PushActionUnlessFull(s, action) ==
    IF Len(s.actions) >= maxActions THEN s
    ELSE [s EXCEPT !.actions = <<action>> \o s.actions]

pushAction(s, action) ==
    [s EXCEPT !.actions = Slice(<<action>> \o s.actions, 0, maxActions)]

\* popAction that takes the action at the tail.
PopActionFromTail(s) ==
    IF Len(s.actions) = 0
    THEN [stack |-> s, action |-> Null]
    ELSE [stack |-> [s EXCEPT !.actions = SubSeq(s.actions, 1, Len(s.actions) - 1)],
          action |-> s.actions[Len(s.actions)]]

popAction(s) ==
    IF Len(s.actions) = 0
    THEN [stack |-> s, action |-> Null]
    ELSE [stack |-> [s EXCEPT !.actions = Tail(s.actions)],
          action |-> Head(s.actions)]

clear(s) == [s EXCEPT !.actions = <<>>]

UndoInit ==
    /\ maxActions \in (0 .. MaxCapacityTried) \cup {DefaultMaxActions}
    /\ \E k \in SiteKeys : stack = [siteKey |-> k, actions |-> <<>>]
    /\ lastPop = Null
    /\ pushCount = 0
    /\ pushedRun = <<>>
    /\ runPopped = FALSE

UndoRest ==
    /\ maxActions = DefaultMaxActions
    /\ stack = [siteKey |-> "a.example", actions |-> <<>>]
    /\ lastPop = Null
    /\ pushCount = 0
    /\ pushedRun = <<>>
    /\ runPopped = FALSE

Push ==
    /\ pushCount < MaxPushes
    /\ pushCount' = pushCount + 1
    /\ stack' = pushAction(stack, UndoAction(pushCount + 1))
    /\ pushedRun' = Append(pushedRun, UndoAction(pushCount + 1))
    /\ UNCHANGED <<maxActions, lastPop, runPopped>>
    /\ UNCHANGED notUndo

Pop ==
    /\ stack' = popAction(stack).stack
    /\ lastPop' = popAction(stack).action
    /\ IF Len(stack'.actions) = 0
       THEN pushedRun' = <<>> /\ runPopped' = FALSE
       ELSE pushedRun' = pushedRun /\ runPopped' = TRUE
    /\ UNCHANGED <<maxActions, pushCount>>
    /\ UNCHANGED notUndo

Clear ==
    /\ stack' = clear(stack)
    /\ pushedRun' = <<>>
    /\ runPopped' = FALSE
    /\ UNCHANGED <<maxActions, lastPop, pushCount>>
    /\ UNCHANGED notUndo

(***************************************************************************)
(* LRUManager                                                              *)
(***************************************************************************)
\* The default of the constructor's maxSize.
DefaultMaxSize == 100
\* The largest other capacity a manager is constructed with.
MaxSizeTried == 2
\* The cache keys are 1 .. MaxKeys, in the order of their key strings.
MaxKeys == 3
\* The largest value Date.now() takes.
MaxClock == 3

Keys == 1 .. MaxKeys

\* A CacheEntry as the store holds it.
CacheEntry(st, k) == [cacheKey |-> k, lastAccessedAt |-> st[k]]

\* An entry comes before another in the lastAccessedAt index: by access time,
\* and by primary key among equal access times.
IndexBefore(a, b) ==
    \/ a.lastAccessedAt < b.lastAccessedAt
    \/ a.lastAccessedAt = b.lastAccessedAt /\ a.cacheKey < b.cacheKey

\* What the cursor over the lastAccessedAt index yields, in order.
RECURSIVE CursorOrder(_)
CursorOrder(S) ==
    IF S = {} THEN <<>>
    ELSE LET first == CHOOSE a \in S : \A b \in S \ {a} : IndexBefore(a, b)
         IN  <<first>> \o CursorOrder(S \ {first})

\* Array.prototype.sort((a, b) => a.lastAccessedAt - b.lastAccessedAt): a stable
\* insertion of each element after the ones that do not compare greater.
RECURSIVE SortByAccess(_)
SortByAccess(s) ==
    IF s = <<>> THEN <<>>
    ELSE LET rest == SortByAccess(SubSeq(s, 1, Len(s) - 1))
             x == s[Len(s)]
             keep == {i \in 1 .. Len(rest) :
                        rest[i].lastAccessedAt <= x.lastAccessedAt}
             at == IF keep = {} THEN 0
                   ELSE CHOOSE i \in keep : \A j \in keep : j <= i
         IN  SubSeq(rest, 1, at) \o <<x>> \o SubSeq(rest, at + 1, Len(rest))

\* The scan always deletes the newest entries instead of the oldest.
EvictionVictimsNewest(entries) ==
    IF Len(entries) > maxSize
    THEN Slice(SortByAccess(entries), maxSize, Len(entries))
    ELSE <<>>

\* evictOldest's toDelete for the scanned entries.
EvictionVictims(entries) ==
    IF Len(entries) > maxSize
    THEN Slice(SortByAccess(entries), 0, Len(entries) - maxSize)
    ELSE <<>>

CacheInit ==
    /\ maxSize \in (0 .. MaxSizeTried) \cup {DefaultMaxSize}
    /\ store = <<>>
    /\ clock = 0
    /\ evictPc = "idle"
    /\ toDelete = <<>>
    /\ before = <<>>

CacheRest ==
    /\ maxSize = DefaultMaxSize
    /\ store = <<>>
    /\ clock = 0
    /\ evictPc = "idle"
    /\ toDelete = <<>>
    /\ before = <<>>

\* The store serves other transactions while evictOldest's is open.
TransactionsOverlap == TRUE

\* No readwrite transaction of evictOldest is open on the store.
NoEviction == evictPc \in {"idle", "done"}

\* Date.now(): the clock does not go back.
Now(t) == t \in {clock, clock + 1} /\ t >= 1 /\ t <= MaxClock

\* The caller puts an entry: a new key, or a new value of a key it holds.
PutEntry(k) ==
    /\ NoEviction
    /\ \E t \in 1 .. MaxClock :
        /\ Now(t)
        /\ clock' = t
        /\ store' = [j \in DOMAIN store \cup {k} |->
                        IF j = k THEN t ELSE store[j]]
    /\ evictPc' = "idle"
    /\ UNCHANGED <<maxSize, toDelete, before>>
    /\ UNCHANGED notCache

\* A cache hit: updateAccessTime(entry), put back.
UpdateAccessTime(k) ==
    /\ NoEviction
    /\ k \in DOMAIN store
    /\ \E t \in 1 .. MaxClock :
        /\ Now(t)
        /\ clock' = t
        /\ store' = [store EXCEPT ![k] = t]
    /\ evictPc' = "idle"
    /\ UNCHANGED <<maxSize, toDelete, before>>
    /\ UNCHANGED notCache

\* evictOldest up to its deletes: the transaction, the cursor's walk, toDelete.
EvictScan ==
    /\ NoEviction
    /\ evictPc' = "scanned"
    /\ before' = store
    /\ toDelete' = EvictionVictims(
            CursorOrder({CacheEntry(store, k) : k \in DOMAIN store}))
    /\ UNCHANGED <<maxSize, store, clock>>
    /\ UNCHANGED notCache

\* One awaited store.delete(entry.cacheKey).
EvictDelete ==
    /\ evictPc = "scanned"
    /\ toDelete # <<>>
    /\ store' = [j \in DOMAIN store \ {Head(toDelete).cacheKey} |-> store[j]]
    /\ toDelete' = Tail(toDelete)
    /\ UNCHANGED <<maxSize, clock, evictPc, before>>
    /\ UNCHANGED notCache

\* The loop is over: await tx.complete, and evictOldest returns.
EvictComplete ==
    /\ evictPc = "scanned"
    /\ toDelete = <<>>
    /\ evictPc' = "done"
    /\ UNCHANGED <<maxSize, store, clock, toDelete, before>>
    /\ UNCHANGED notCache

(***************************************************************************)
(* Text.  A text is a string, and a string is the sequence of its          *)
(* characters: Head, Tail, SubSeq, Len and \o work on it.                  *)
(***************************************************************************)
\* undefined, and a value that is present: a property that may be missing holds
\* <<>> or <<value>>.
Undefined == <<>>
Some(v) == <<v>>
IsDefined(o) == o # <<>>
Val(o) == o[1]

\* The characters of a string, as a set.
CharsOf(str) == {SubSeq(str, i, i) : i \in 1 .. Len(str)}

LowerCaseLetters == "abcdefghijklmnopqrstuvwxyz"
UpperCaseLetters == "ABCDEFGHIJKLMNOPQRSTUVWXYZ"
Digits == "0123456789"

\* The classes [.!?], \s and \w of the regular expressions.
Terminators == CharsOf(".!?")
Whitespace == CharsOf(" \t\n")
WordChars ==
    CharsOf(LowerCaseLetters) \cup CharsOf(UpperCaseLetters)
        \cup CharsOf(Digits) \cup {"_"}

IsTerminator(c) == c \in Terminators
IsSpace(c) == c \in Whitespace
IsWordChar(c) == c \in WordChars

\* The character at position i of a string.
CharAt(str, i) == SubSeq(str, i, i)

\* String.prototype.toLowerCase
LowerChar(c) ==
    IF c \in CharsOf(UpperCaseLetters)
    THEN CharAt(LowerCaseLetters,
                CHOOSE i \in 1 .. Len(UpperCaseLetters) :
                    CharAt(UpperCaseLetters, i) = c)
    ELSE c
RECURSIVE ToLowerCase(_)
ToLowerCase(str) ==
    LET capitals == {i \in 1 .. Len(str) :
                        CharAt(str, i) \in CharsOf(UpperCaseLetters)}
    IN  IF capitals = {} THEN str
        ELSE LET first == CHOOSE i \in capitals : \A j \in capitals : i <= j
             IN  SubSeq(str, 1, first - 1) \o LowerChar(CharAt(str, first))
                    \o ToLowerCase(SubSeq(str, first + 1, Len(str)))

\* The least number of a non-empty set of numbers.
Least(S) == CHOOSE i \in S : \A j \in S : i <= j

\* The length of the run of terminators (or, with FALSE, of other characters)
\* that t starts with.
RunLength(t, terminators) ==
    Least({n \in 0 .. Len(t) :
             n = Len(t) \/ IsTerminator(CharAt(t, n + 1)) # terminators})

\* text.match(/[^.!?]+[.!?]+/g): the matches, from left to right. A match is a
\* maximal run of other characters and the maximal run of terminators after it;
\* terminators with nothing before them and an unterminated end match nothing.
RECURSIVE MatchSentences(_)
MatchSentences(t) ==
    IF t = "" THEN <<>>
    ELSE IF IsTerminator(Head(t)) THEN MatchSentences(Tail(t))
    ELSE LET n == RunLength(t, FALSE)
             m == RunLength(SubSeq(t, n + 1, Len(t)), TRUE)
         IN  IF m = 0 THEN <<>>
             ELSE <<SubSeq(t, 1, n + m)>>
                    \o MatchSentences(SubSeq(t, n + m + 1, Len(t)))

\* text.match(/[^.!?]+[.!?]+/g) || [text]
Sentences(t) ==
    IF MatchSentences(t) = <<>> THEN <<t>> ELSE MatchSentences(t)

\* Array.prototype.join(' ') of strings.
RECURSIVE JoinWithSpace(_)
JoinWithSpace(ss) ==
    IF ss = <<>> THEN ""
    ELSE IF Len(ss) = 1 THEN ss[1]
    ELSE ss[1] \o " " \o JoinWithSpace(Tail(ss))

\* Whether a run of whitespace ends at position i of t.
EndsSpaceRun(t, i) ==
    IsSpace(CharAt(t, i)) /\ (i = Len(t) \/ ~IsSpace(CharAt(t, i + 1)))

\* text.split(/\s+/).length: one more than the number of whitespace runs.
SplitCount(t) == 1 + Cardinality({i \in 1 .. Len(t) : EndsSpaceRun(t, i)})

(***************************************************************************)
(* The transform pipeline (transformWorker.ts)                             *)
(***************************************************************************)
\* TONE_LEXICONS: each lexicon's entries <<from, to>> in the order Object.entries
\* yields them.
TONE_LEXICONS ==
    [formal |-> <<
        <<"hi", "greetings">>,
        <<"hey", "hello">>,
        <<"yeah", "yes">>,
        <<"nope", "no">>,
        <<"gonna", "going to">>,
        <<"wanna", "want to">>,
        <<"kinda", "kind of">>,
        <<"a lot", "many">>,
        <<"really", "very">>,
        <<"pretty", "quite">> >>,
     casual |-> <<
        <<"greetings", "hi">>,
        <<"hello", "hey">>,
        <<"yes", "yeah">>,
        <<"no", "nope">>,
        <<"going to", "gonna">>,
        <<"want to", "wanna">>,
        <<"kind of", "kinda">>,
        <<"very", "really">>,
        <<"quite", "pretty">> >>,
     professional |-> <<
        <<"think", "believe">>,
        <<"get", "obtain">>,
        <<"make", "create">>,
        <<"help", "assist">>,
        <<"show", "demonstrate">>,
        <<"tell", "inform">> >>]

\* The names every object literal inherits from Object.prototype that a
\* lower-cased name can be: TONE_LEXICONS[name] and STYLE_PATTERNS[name] are
\* not undefined for them.
InheritedNames == {"constructor", "__proto__"}

\* The fillers of STYLE_PATTERNS.concise, in order.
Fillers ==
    <<"actually", "basically", "literally", "essentially", "obviously", "clearly">>

\* The replacements of STYLE_PATTERNS.detailed and .technical, in order.
DetailedRules ==
    << <<"is", "is currently">>,
       <<"was", "was previously">>,
       <<"can", "is able to">> >>
TechnicalRules ==
    << <<"use", "utilize">>,
       <<"part", "component">>,
       <<"thing", "element">> >>

\* Whether \bfrom\b matches at position i of t, with the flag i when ignoreCase;
\* from starts and ends with a word character, and is in lower case under i.
\* afterWord: the character before t is a word character.
MatchesAt(t, i, from, ignoreCase, afterWord) ==
    /\ IF i = 1 THEN ~afterWord ELSE ~IsWordChar(CharAt(t, i - 1))
    /\ i + Len(from) - 1 <= Len(t)
    /\ LET found == SubSeq(t, i, i + Len(from) - 1)
       IN  IF ignoreCase THEN ToLowerCase(found) = from ELSE found = from
    /\ (i + Len(from) <= Len(t) => ~IsWordChar(CharAt(t, i + Len(from))))

\* result.replace(new RegExp(`\\b${from}\\b`, 'g' or 'gi'), to) and the number
\* of matches: [text, count]. The search resumes after each match.
RECURSIVE ReplaceAll(_, _, _, _, _)
ReplaceAll(t, from, to, ignoreCase, afterWord) ==
    LET matches == {i \in 1 .. Len(t) :
                        MatchesAt(t, i, from, ignoreCase, afterWord)}
    IN  IF matches = {} THEN [text |-> t, count |-> 0]
        ELSE LET first == Least(matches)
                 rest == ReplaceAll(SubSeq(t, first + Len(from), Len(t)),
                                    from, to, ignoreCase, TRUE)
             IN  [text |-> SubSeq(t, 1, first - 1) \o to \o rest.text,
                  count |-> 1 + rest.count]

\* The rules of a list applied one after the other: [text, count].
RECURSIVE ReplaceEach(_, _, _)
ReplaceEach(t, rules, ignoreCase) ==
    IF rules = <<>> THEN [text |-> t, count |-> 0]
    ELSE LET one == ReplaceAll(t, rules[1][1], rules[1][2], ignoreCase, FALSE)
             rest == ReplaceEach(one.text, Tail(rules), ignoreCase)
         IN  [text |-> rest.text, count |-> one.count + rest.count]

\* result.replace(/\s{2,}/g, ' ')
RECURSIVE CollapseSpaces(_)
CollapseSpaces(t) ==
    LET runs == {i \in 1 .. Len(t) - 1 :
                    IsSpace(CharAt(t, i)) /\ IsSpace(CharAt(t, i + 1))}
    IN  IF runs = {} THEN t
        ELSE LET first == Least(runs)
                 last == Least({k \in first .. Len(t) : EndsSpaceRun(t, k)})
             IN  SubSeq(t, 1, first - 1) \o " "
                    \o CollapseSpaces(SubSeq(t, last + 1, Len(t)))

\* String.prototype.trim
Trim(t) ==
    LET inked == {i \in 1 .. Len(t) : ~IsSpace(CharAt(t, i))}
    IN  IF inked = {} THEN ""
        ELSE SubSeq(t, Least(inked),
                    CHOOSE i \in inked : \A j \in inked : j <= i)

\* The concise style with the whitespace collapsed before the fillers go.
ConciseCollapsingFirst(t) ==
    LET rules == [i \in 1 .. Len(Fillers) |-> <<Fillers[i], "">>]
    IN  Trim(ReplaceEach(CollapseSpaces(t), rules, TRUE).text)

\* STYLE_PATTERNS.concise
Concise(t) ==
    LET rules == [i \in 1 .. Len(Fillers) |-> <<Fillers[i], "">>]
    IN  Trim(CollapseSpaces(ReplaceEach(t, rules, TRUE).text))

\* STYLE_PATTERNS.detailed and .technical
Detailed(t) == ReplaceEach(t, DetailedRules, FALSE).text
Technical(t) == ReplaceEach(t, TechnicalRules, FALSE).text

\* What a stage gives: a text and its trace entry, or the exception it throws.
Applied(t, r) == [ok |-> TRUE, text |-> t, rule |-> r]
Thrown(message) == [ok |-> FALSE, error |-> message]
\* The message of a TypeError the engine throws.
TypeError == "TypeError"

\* n * 0.3 rounded down.
Floor3Tenths(n) == (3 * n) \div 10

\* Math.ceil(n * 0.3) and Math.ceil(n * 0.6)
Ceil3Tenths(n) == (3 * n + 9) \div 10
Ceil6Tenths(n) == (6 * n + 9) \div 10

\* The switch of applyLengthTransform: targetSentences, undefined when no case
\* matches.
TargetSentences(n, length, customLength) ==
    CASE length = "short" -> Some(Max(1, Ceil3Tenths(n)))
      [] length = "medium" -> Some(Max(1, Ceil6Tenths(n)))
      [] length = "long" -> Some(n)
      [] length = "custom" ->
            IF IsDefined(customLength) /\ Val(customLength) # 0
            THEN customLength ELSE Some(n)
      [] OTHER -> Undefined

\* applyLengthTransform(text, length, customLength); text may be undefined.
applyLengthTransform(text, length, customLength) ==
    IF ~IsDefined(text) THEN Thrown(TypeError)
    ELSE LET sentences == Sentences(Val(text))
             target == TargetSentences(Len(sentences), length, customLength)
             kept == IF IsDefined(target)
                     THEN Slice(sentences, 0, Val(target))
                     ELSE sentences
         IN  Applied(Some(JoinWithSpace(kept)),
                     [rule |-> "length", mode |-> length, sentences |-> target])

\* applyToneTransform(text, tone)
applyToneTransform(text, tone) ==
    LET name == ToLowerCase(tone)
    IN  IF name \in DOMAIN TONE_LEXICONS
        THEN IF ~IsDefined(text) THEN Thrown(TypeError)
             ELSE LET r == ReplaceEach(Val(text), TONE_LEXICONS[name], TRUE)
                  IN  Applied(Some(r.text),
                              [rule |-> "tone", tone |-> tone, swaps |-> r.count])
        ELSE IF name \in InheritedNames
        THEN Applied(text, [rule |-> "tone", tone |-> tone, swaps |-> 0])
        ELSE Applied(text, [rule |-> "tone_unchanged"])

\* applyStyleTransform(text, style)
applyStyleTransform(text, style) ==
    LET name == ToLowerCase(style)
        applied == [rule |-> "style", style |-> style]
    IN  CASE name \in {"concise", "detailed", "technical"} ->
                IF ~IsDefined(text) THEN Thrown(TypeError)
                ELSE Applied(Some(CASE name = "concise" -> Concise(Val(text))
                                    [] name = "detailed" -> Detailed(Val(text))
                                    [] name = "technical" -> Technical(Val(text))),
                             applied)
          \* Object(text): a String object of the same characters
          [] name = "constructor" -> Applied(text, applied)
          [] name = "__proto__" -> Thrown(TypeError)
          [] OTHER -> Applied(text, [rule |-> "style_unchanged"])

\* The difference over the word count of the transformed text.
ChangeRatioOverTransformed(original, transformed) ==
    LET originalWords == SplitCount(original)
        transformedWords == SplitCount(transformed)
        lengthDiff == IF originalWords >= transformedWords
                      THEN originalWords - transformedWords
                      ELSE transformedWords - originalWords
    IN  (200 * lengthDiff + transformedWords) \div (2 * transformedWords)

\* calculateChangeRatio(original, transformed), in hundredths:
\* Math.round(ratio * 100).
calculateChangeRatio(original, transformed) ==
    LET originalWords == SplitCount(original)
        transformedWords == SplitCount(transformed)
        lengthDiff == IF originalWords >= transformedWords
                      THEN originalWords - transformedWords
                      ELSE transformedWords - originalWords
        maxLength == Max(originalWords, transformedWords)
    IN  IF maxLength > 0
        THEN (200 * lengthDiff + maxLength) \div (2 * maxLength)
        ELSE 0

\* A test for undefined only: the empty string passes it.
TruthyIfDefined(o) == IsDefined(o)

\* A property that is a string, as an if takes it: present and not empty.
Truthy(o) == IsDefined(o) /\ Val(o) # ""

\* The response envelopes; timing.elapsedMs, a reading of the clock, is left out.
OkResponse(id, result) ==
    [id |-> id, status |-> "ok", result |-> Some(result), error |-> Undefined]
\* An error response that keeps a result.
ErrorResponseWithResult(id, message) ==
    [id |-> id, status |-> "err", result |-> Some([text |-> message]),
     error |-> Some(message)]
\* What the catch blocks and the unknown-type branch build.
ErrorResponse(id, message) ==
    [id |-> id, status |-> "err", result |-> Undefined, error |-> Some(message)]

\* How the promise of an async function settles.
Fulfilled(response) == [state |-> "fulfilled", value |-> response]
Rejected(reason) == [state |-> "rejected", reason |-> reason]

\* settings = {}: what a request without settings has.
NoSettings ==
    [length |-> Undefined, customLength |-> Undefined,
     tone |-> Undefined, style |-> Undefined]

\* The text and the trace of the pipeline after one more stage result r.
RunStage(acc, r) ==
    IF r.ok
    THEN [ok |-> TRUE, text |-> r.text,
          rulesApplied |-> Append(acc.rulesApplied, r.rule)]
    ELSE r

\* The try block of performTransform up to the change ratio: the stages.
RunStages(text, settings) ==
    LET start == [ok |-> TRUE, text |-> text, rulesApplied |-> <<>>]
        afterLength ==
            IF Truthy(settings.length)
            THEN RunStage(start, applyLengthTransform(
                    start.text, Val(settings.length), settings.customLength))
            ELSE start
        afterTone ==
            IF afterLength.ok /\ Truthy(settings.tone)
            THEN RunStage(afterLength,
                    applyToneTransform(afterLength.text, Val(settings.tone)))
            ELSE afterLength
    IN  IF afterTone.ok /\ Truthy(settings.style)
        THEN RunStage(afterTone,
                applyStyleTransform(afterTone.text, Val(settings.style)))
        ELSE afterTone

\* performTransform(request, signal): how its promise settles.
performTransform(request, aborted) ==
    IF ~IsDefined(request.payload) THEN Rejected(TypeError)
    ELSE LET text == Val(request.payload).text
             settings == Val(request.payload).settings
             staged == RunStages(text, settings)
         IN  Fulfilled(
                IF aborted THEN ErrorResponse(request.id, "Transform cancelled")
                ELSE IF ~staged.ok THEN ErrorResponse(request.id, staged.error)
                ELSE IF ~IsDefined(text) \/ ~IsDefined(staged.text)
                THEN ErrorResponse(request.id, TypeError)
                ELSE OkResponse(request.id,
                        [text |-> Val(staged.text),
                         rulesApplied |-> staged.rulesApplied,
                         changeRatio |->
                            calculateChangeRatio(Val(text), Val(staged.text))]))

(***************************************************************************)
(* The analysis functions (nlpWorker.ts) and performAnalyze                *)
(***************************************************************************)
\* text.split(/\s+/): the pieces between the runs of whitespace; a text that
\* starts or ends with whitespace gives an empty first or last piece.
RECURSIVE SplitWhitespace(_)
SplitWhitespace(t) ==
    LET spaces == {i \in 1 .. Len(t) : IsSpace(CharAt(t, i))}
    IN  IF spaces = {} THEN <<t>>
        ELSE LET first == Least(spaces)
                 last == Least({k \in first .. Len(t) : EndsSpaceRun(t, k)})
             IN  <<SubSeq(t, 1, first - 1)>>
                    \o SplitWhitespace(SubSeq(t, last + 1, Len(t)))

\* t.replace(/[...]/g, ''): t without the characters of the set dropped.
RECURSIVE Without(_, _)
Without(t, dropped) ==
    LET hits == {i \in 1 .. Len(t) : CharAt(t, i) \in dropped}
    IN  IF hits = {} THEN t
        ELSE SubSeq(t, 1, Least(hits) - 1)
                \o Without(SubSeq(t, Least(hits) + 1, Len(t)), dropped)

\* text.toLowerCase().replace(/[^\w\s]/g, '').split(/\s+/)
Tokenize(t) ==
    LET lower == ToLowerCase(t)
    IN  SplitWhitespace(
            Without(lower, CharsOf(lower) \ (WordChars \cup Whitespace)))

STOPWORDS ==
    {"the", "be", "to", "of", "and", "a", "in", "that", "have", "i",
     "it", "for", "not", "on", "with", "he", "as", "you", "do", "at",
     "this", "but", "his", "by", "from", "they", "we", "say", "her", "she",
     "or", "an", "will", "my", "one", "all", "would", "there", "their", "what"}

\* The value of a digit.
DigitValue(c) ==
    (CHOOSE i \in 1 .. Len(Digits) : CharAt(Digits, i) = c) - 1

\* The order of the numbers that two strings of digits without leading zeros
\* write.
RECURSIVE DigitsLeq(_, _)
DigitsLeq(a, b) ==
    IF a = "" THEN TRUE
    ELSE IF Head(a) = Head(b) THEN DigitsLeq(Tail(a), Tail(b))
    ELSE DigitValue(Head(a)) < DigitValue(Head(b))
IndexLeq(a, b) ==
    Len(a) < Len(b) \/ (Len(a) = Len(b) /\ DigitsLeq(a, b))

\* A property name that is an array index: digits without a leading zero, up
\* to 2^32 - 2. Object.entries lists these first, in ascending order.
IsIndexKey(w) ==
    /\ w # ""
    /\ CharsOf(w) \subseteq CharsOf(Digits)
    /\ (Len(w) > 1 => Head(w) # "0")
    /\ IndexLeq(w, "4294967294")

\* The elements of a sequence without repetitions, in the order of their first
\* occurrence.
RECURSIVE Distinct(_)
Distinct(ws) ==
    IF ws = <<>> THEN <<>>
    ELSE LET front == Distinct(SubSeq(ws, 1, Len(ws) - 1))
             w == ws[Len(ws)]
         IN  IF \E i \in 1 .. Len(front) : front[i] = w THEN front
             ELSE Append(front, w)

\* The index keys of a sequence of distinct words, in ascending order.
RECURSIVE AscendingIndexKeys(_)
AscendingIndexKeys(ws) ==
    LET keys == {i \in 1 .. Len(ws) : IsIndexKey(ws[i])}
    IN  IF keys = {} THEN <<>>
        ELSE LET least == CHOOSE i \in keys :
                            \A j \in keys : IndexLeq(ws[i], ws[j])
             IN  <<ws[least]>>
                    \o AscendingIndexKeys(
                          SelectSeq(ws, LAMBDA w : w # ws[least]))

\* Object.entries(freq) after words.forEach(w => freq[w] = (freq[w] || 0) + 1):
\* [word, count] for each own property, index keys first and ascending, then
\* the others in the order they were created. freq['__proto__'] is set to a
\* string, which the setter of Object.prototype discards: no own property.
\* (The count of 'constructor' starts from the inherited function and is not
\* a number; the texts checked do not hold that word.)
FrequencyEntries(words) ==
    LET own == SelectSeq(Distinct(words), LAMBDA w : w # "__proto__")
        keys == AscendingIndexKeys(own)
                    \o SelectSeq(own, LAMBDA w : ~IsIndexKey(w))
    IN  [i \in 1 .. Len(keys) |->
            [word |-> keys[i],
             count |-> Cardinality({j \in 1 .. Len(words) :
                                        words[j] = keys[i]})]]

\* entries.sort((a, b) => b[1] - a[1]): by descending count, entries of equal
\* count in the order they had.
RECURSIVE SortByCount(_)
SortByCount(entries) ==
    IF entries = <<>> THEN <<>>
    ELSE LET best == CHOOSE i \in 1 .. Len(entries) :
                        /\ \A j \in 1 .. Len(entries) :
                              entries[j].count <= entries[i].count
                        /\ \A j \in 1 .. i - 1 :
                              entries[j].count < entries[i].count
         IN  <<entries[best]>>
                \o SortByCount(SubSeq(entries, 1, best - 1)
                                  \o SubSeq(entries, best + 1, Len(entries)))

\* Object.entries(freq).sort(...).slice(0, n).map(([word]) => word)
TopWords(words, n) ==
    LET top == Slice(SortByCount(FrequencyEntries(words)), 0, n)
    IN  [i \in 1 .. Len(top) |-> top[i].word]

\* extractKeywords that keeps the words of three letters.
ExtractKeywordsOfThreeLetters(text, maxKeywords) ==
    LET words == SelectSeq(Tokenize(text),
                           LAMBDA w : Len(w) >= 3 /\ w \notin STOPWORDS)
    IN  TopWords(words, IF IsDefined(maxKeywords) THEN Val(maxKeywords) ELSE 10)
\* extractKeywords(text, maxKeywords = 10)
extractKeywords(text, maxKeywords) ==
    LET words == SelectSeq(Tokenize(text),
                           LAMBDA w : Len(w) > 3 /\ w \notin STOPWORDS)
    IN  TopWords(words, IF IsDefined(maxKeywords) THEN Val(maxKeywords) ELSE 10)

\* extractiveSummarize(text, summaryLength = 2)
extractiveSummarize(text, summaryLength) ==
    LET sentences == Sentences(text)
        n == IF IsDefined(summaryLength) THEN Val(summaryLength) ELSE 2
    IN  Trim(JoinWithSpace(Slice(sentences, 0, Min(n, Len(sentences)))))

Vowels == CharsOf("aeiouy")

\* The number of matches of /[aeiouy]+/g: the maximal runs of vowels.
VowelRuns(word) ==
    Cardinality({i \in 1 .. Len(word) :
                    /\ CharAt(word, i) \in Vowels
                    /\ (i = Len(word) \/ CharAt(word, i + 1) \notin Vowels)})

EndsWith(word, suffix) ==
    /\ Len(word) >= Len(suffix)
    /\ SubSeq(word, Len(word) - Len(suffix) + 1, Len(word)) = suffix

\* countSyllables that applies the heuristic to the short words too.
CountSyllablesOfShortWords(word) ==
    LET lower == ToLowerCase(word)
        letters == Without(lower, CharsOf(lower) \ CharsOf(LowerCaseLetters))
        vowels == IF VowelRuns(letters) > 0 THEN VowelRuns(letters) ELSE 1
        silent == IF EndsWith(letters, "e") THEN vowels - 1 ELSE vowels
        count == IF EndsWith(letters, "le") /\ Len(letters) > 2
                 THEN silent + 1 ELSE silent
    IN  Max(1, count)
\* countSyllables(word)
countSyllables(word) ==
    LET lower == ToLowerCase(word)
        letters == Without(lower, CharsOf(lower) \ CharsOf(LowerCaseLetters))
        vowels == IF VowelRuns(letters) > 0 THEN VowelRuns(letters) ELSE 1
        silent == IF EndsWith(letters, "e") THEN vowels - 1 ELSE vowels
        count == IF EndsWith(letters, "le") /\ Len(letters) > 2
                 THEN silent + 1 ELSE silent
    IN  IF Len(letters) <= 3 THEN 1 ELSE Max(1, count)

RECURSIVE SumSyllables(_)
SumSyllables(words) ==
    IF words = <<>> THEN 0
    ELSE countSyllables(words[1]) + SumSyllables(Tail(words))

\* Math.round(num / den) for a positive den.
RoundRatio(num, den) == (2 * num + den) \div (2 * den)

\* calculateReadabilityScore(text): 206.835 - 1.015 * words / sentences
\* - 84.6 * syllables / words, rounded and kept within 0 and 100; the rounding
\* is done on the fraction over 1000 * sentences * words.
calculateReadabilityScore(text) ==
    LET sentences == Len(Sentences(text))
        words == SplitWhitespace(text)
        syllables == SumSyllables(words)
        n == Len(words)
    IN  IF sentences = 0 \/ n = 0 THEN 0
        ELSE Max(0, Min(100,
                RoundRatio(206835 * sentences * n - 1015 * n * n
                              - 84600 * syllables * sentences,
                           1000 * sentences * n)))

\* The payload of a request: the properties the workers read, each one
\* undefined when the message does not have it.
Payload(text, settings) ==
    [text |-> text, settings |-> settings,
     maxKeywords |-> Undefined, summaryLength |-> Undefined]

\* performAnalyze(request, signal) of the transform worker: the promise it
\* returns, settled.
performAnalyze(request, aborted) ==
    IF ~IsDefined(request.payload) THEN Rejected(TypeError)
    ELSE LET text == Val(request.payload).text
         IN  IF aborted
             THEN Fulfilled(ErrorResponse(request.id, "Analysis cancelled"))
             ELSE IF ~IsDefined(text)
             THEN Fulfilled(ErrorResponse(request.id, TypeError))
             ELSE LET words == SelectSeq(Tokenize(Val(text)),
                                         LAMBDA w : Len(w) > 3)
                      sentences == Sentences(Val(text))
                  IN  Fulfilled(OkResponse(request.id,
                        [keywords |-> TopWords(words, 10),
                         summary |-> Trim(JoinWithSpace(Slice(sentences, 0, 2))),
                         score |-> Min(100, RoundRatio(10 * Len(words),
                                                       Len(sentences)))]))

\* The types processRequest has a case for.
NLPTypes == {"keywords", "summarize", "score", "analyze"}

\* processRequest(request, signal) of the NLP worker: the promise it returns,
\* settled.
processRequest(request, aborted) ==
    IF ~IsDefined(request.payload) THEN Rejected(TypeError)
    ELSE LET payload == Val(request.payload)
             text == Val(payload.text)
         IN  IF aborted
             THEN Fulfilled(ErrorResponse(request.id, "Request cancelled"))
             ELSE IF request.type \notin NLPTypes
             THEN Fulfilled(ErrorResponse(request.id,
                        "Unknown request type: " \o request.type))
             ELSE IF ~IsDefined(payload.text)
             THEN Fulfilled(ErrorResponse(request.id, TypeError))
             ELSE Fulfilled(OkResponse(request.id,
                    CASE request.type = "keywords" ->
                           [keywords |->
                               extractKeywords(text, payload.maxKeywords)]
                      [] request.type = "summarize" ->
                           [summary |->
                               extractiveSummarize(text, payload.summaryLength)]
                      [] request.type = "score" ->
                           [score |-> calculateReadabilityScore(text)]
                      [] request.type = "analyze" ->
                           [keywords |-> extractKeywords(text, Undefined),
                            summary |-> extractiveSummarize(text, Undefined),
                            score |-> calculateReadabilityScore(text)]))

(***************************************************************************)
(* performTransform on every text and settings of a bounded domain         *)
(***************************************************************************)
\* The longest text of the enumerated ones, in pieces of the alphabet.
MaxTextLen == 2

\* The pieces the enumerated texts are made of: a key of the formal lexicon, a
\* key of the detailed style, a filler, a space, a terminator.
Alphabet == {"hey", "is", "actually", " ", "."}

\* Longer texts: four sentences; the filler example; a phrase of the casual
\* lexicon, upper case, a tab.
SampleTexts ==
    { "Hey. is. is! hey?",
      "This is actually basically literally the best thing.",
      "Hey, Going to use\t hello" }

\* The texts of up to n pieces.
RECURSIVE TextsOfPieces(_)
TextsOfPieces(n) ==
    IF n = 0 THEN {""}
    ELSE TextsOfPieces(n - 1)
            \cup {t \o a : t \in TextsOfPieces(n - 1), a \in Alphabet}

EnumeratedTexts == TextsOfPieces(MaxTextLen)

PipelineTexts ==
    {Undefined} \cup {Some(t) : t \in EnumeratedTexts \cup SampleTexts}

LengthValues ==
    {Undefined, Some(""), Some("short"), Some("medium"), Some("long"),
     Some("custom"), Some("bogus")}
CustomLengthValues == {Undefined, Some(0), Some(1), Some(-1), Some(9)}
ToneValues ==
    {Undefined, Some(""), Some("formal"), Some("Casual"), Some("weird"),
     Some("constructor")}
StyleValues ==
    {Undefined, Some(""), Some("Concise"), Some("detailed"), Some("technical"),
     Some("odd"), Some("__proto__")}

\* customLength is read only with length custom.
PipelineSettings ==
    {s \in [length : LengthValues, customLength : CustomLengthValues,
            tone : ToneValues, style : StyleValues] :
        s.length # Some("custom") => s.customLength = Undefined}

TransformRequest(id, payload) ==
    [id |-> id, type |-> "transform", payload |-> payload]

\* Every text with every settings; an aborted signal with no settings only,
\* as performTransform reads the signal before anything else.
PipelineInit ==
    /\ \E text \in PipelineTexts, settings \in PipelineSettings :
         /\ tRequest = TransformRequest("r1", Some(Payload(text, settings)))
         /\ tAborted \in (IF settings = NoSettings THEN BOOLEAN ELSE {FALSE})
    /\ tSettled = Undefined

PipelineRest ==
    /\ tRequest = TransformRequest("r1", Undefined)
    /\ tAborted = FALSE
    /\ tSettled = Undefined

\* The longest text of fillers, in pieces.
MaxFillerTextLen == 4

\* The pieces of the texts the concise style is run on: fillers in lower and
\* upper case, a word that is no filler, whitespace, punctuation.
FillerAlphabet == {"actually", "Basically", "x ", " ", "\n", ","}

RECURSIVE FillerTexts(_)
FillerTexts(n) ==
    IF n = 0 THEN {""}
    ELSE FillerTexts(n - 1)
            \cup {t \o a : t \in FillerTexts(n - 1), a \in FillerAlphabet}

\* Every text of fillers with the concise style as the only stage.
ConciseInit ==
    /\ \E text \in FillerTexts(MaxFillerTextLen),
          style \in {"concise", "Concise"} :
         tRequest = TransformRequest("r1",
                        Some(Payload(Some(text),
                                     [NoSettings EXCEPT !.style = Some(style)])))
    /\ tAborted = FALSE
    /\ tSettled = Undefined

\* The longest text of sentences, in pieces.
MaxSentencePieces == 5

\* The pieces of the texts the length stage is run on: a sentence, a sentence
\* that starts with a space and ends with two terminators, words without a
\* terminator, a terminator.
SentenceAlphabet == {"a.", " b?!", "c d", "."}

RECURSIVE SentenceTexts(_)
SentenceTexts(n) ==
    IF n = 0 THEN {""}
    ELSE SentenceTexts(n - 1)
            \cup {t \o a : t \in SentenceTexts(n - 1), a \in SentenceAlphabet}

\* The most pieces of a text cut to a custom length, and the largest
\* customLength, positive or negative.
MaxCustomPieces == 3
MaxCustomLength == 4

\* Every text of sentences with the length custom as the only stage, and
\* customLength absent or an integer.
CustomInit ==
    /\ \E text \in SentenceTexts(MaxCustomPieces),
          customLength \in {Undefined}
              \cup {Some(k) : k \in -MaxCustomLength .. MaxCustomLength} :
         tRequest = TransformRequest("r1",
                        Some(Payload(Some(text),
                                     [NoSettings EXCEPT
                                        !.length = Some("custom"),
                                        !.customLength = customLength])))
    /\ tAborted = FALSE
    /\ tSettled = Undefined

\* Every text of sentences with a length of short, medium or long as the only
\* stage.
LengthInit ==
    /\ \E text \in SentenceTexts(MaxSentencePieces),
          length \in {"short", "medium", "long"} :
         tRequest = TransformRequest("r1",
                        Some(Payload(Some(text),
                                     [NoSettings EXCEPT !.length = Some(length)])))
    /\ tAborted = FALSE
    /\ tSettled = Undefined

\* The call, to the point where the promise it returns has settled.
Transform ==
    /\ tSettled = Undefined
    /\ tSettled' = Some(performTransform(tRequest, tAborted))
    /\ UNCHANGED <<tRequest, tAborted>>
    /\ UNCHANGED notPipeline

(***************************************************************************)
(* The workers: messages, onmessage, the cancel listener                   *)
(***************************************************************************)
\* How many messages are posted to a worker.
MaxMessages == 2

Ids == {"r1", "r2"}

\* { type: 'cancel', id }
CancelMessage(id) == [id |-> id, type |-> "cancel", payload |-> Undefined]
Request(id, type, payload) == [id |-> id, type |-> type, payload |-> payload]

\* The types of the two workers, and one that neither knows.
RequestTypes ==
    {"transform", "analyze", "keywords", "summarize", "score", "translate"}

\* Four sentences.
WorkerText == "Hey. is. is! hey?"

\* Settings whose length stage shortens WorkerText and whose style stage then
\* throws: STYLE_PATTERNS['__proto__'] is Object.prototype, not a function.
FailingSettings ==
    [NoSettings EXCEPT !.length = Some("short"), !.style = Some("__proto__")]

\* No payload, a payload without text, a text, a text with FailingSettings.
WorkerPayloads ==
    {Undefined,
     Some(Payload(Undefined, NoSettings)),
     Some(Payload(Some(WorkerText), NoSettings)),
     Some(Payload(Some(WorkerText), FailingSettings))}

\* The messages posted: every type with every payload under the first id
\* (settings with transform only, as nothing else reads them), one transform
\* under the second id, and a cancel for each id.
Messages ==
    {Request("r1", type, payload) :
        type \in RequestTypes,
        payload \in {p \in WorkerPayloads :
                        p = Undefined \/ Val(p).settings = NoSettings}}
      \cup {Request("r1", "transform",
                    Some(Payload(Some(WorkerText), FailingSettings))),
            Request("r2", "transform",
                    Some(Payload(Some(WorkerText), NoSettings)))}
      \cup {CancelMessage(id) : id \in Ids}

\* map.delete(id)
MapDelete(map, id) == [k \in DOMAIN map \ {id} |-> map[k]]
\* map.set(id, value)
MapSet(map, id, value) ==
    [k \in DOMAIN map \cup {id} |-> IF k = id THEN value ELSE map[k]]

\* The empty Map.
EmptyMap == [k \in {} |-> 0]

\* What a history entry records of a dispatched message: the controller that
\* onmessage created for it, the responses posted while it was handled, and
\* how the handling ended ("awaiting" until then).
Handling(message, controller, posted, ending) ==
    [message |-> message, controller |-> controller,
     posted |-> posted, ending |-> ending]

WorkerInit ==
    /\ worker \in {"transform", "nlp"}
    /\ inbox = <<>>
    /\ sent = 0
    /\ pc = "idle"
    /\ event = Null
    /\ settled = Undefined
    /\ controllers = EmptyMap
    /\ abortedSignals = {}
    /\ timers = {}
    /\ outbox = <<>>
    /\ trace = <<>>

WorkerRest ==
    /\ worker = "transform"
    /\ inbox = <<>>
    /\ sent = 0
    /\ pc = "idle"
    /\ event = Null
    /\ settled = Undefined
    /\ controllers = EmptyMap
    /\ abortedSignals = {}
    /\ timers = {}
    /\ outbox = <<>>
    /\ trace = <<>>

\* worker.postMessage(message) on the other side of the port.
PostMessage(message) ==
    /\ sent < MaxMessages
    /\ inbox' = Append(inbox, message)
    /\ sent' = sent + 1
    /\ UNCHANGED <<worker, pc, event, settled, controllers, abortedSignals,
                   timers, outbox, trace>>
    /\ UNCHANGED notWorker

Post == \E message \in Messages : PostMessage(message)

\* Whether the finally block of onmessage runs for a promise settled this way:
\* for a fulfilled and for a rejected one.
RunsFinallyOnFulfilment(outcome) == outcome.state = "fulfilled"
RunsFinally(outcome) == outcome.state \in {"fulfilled", "rejected"}

\* The branch of the transform worker's onmessage for a type that is neither
\* transform nor analyze: no call, no await.
UnknownTypeResponse(request) == ErrorResponse(request.id, "Unknown request type")

\* The call onmessage awaits, for a request and the signal of its controller.
Awaited(request, aborted) ==
    IF worker = "nlp" THEN processRequest(request, aborted)
    ELSE IF request.type = "transform" THEN performTransform(request, aborted)
    ELSE performAnalyze(request, aborted)

\* self.onmessage up to its await: a controller is created and registered
\* under the id, the deadline timer is armed, and the call is made; its promise
\* has settled when the call returns. For a type the transform worker does
\* not know there is no await: the response is posted and the finally block
\* runs before onmessage returns.
OnMessage ==
    /\ pc = "idle"
    /\ inbox # <<>>
    /\ LET request == Head(inbox)
           controller == Len(trace) + 1
           timeout == [id |-> request.id, controller |-> controller]
       IN  /\ inbox' = Tail(inbox)
           /\ event' = request
           /\ IF worker = "transform"
                    /\ request.type \notin {"transform", "analyze"}
              THEN /\ outbox' = Append(outbox, UnknownTypeResponse(request))
                   /\ controllers' =
                        MapDelete(MapSet(controllers, request.id, controller),
                                  request.id)
                   /\ timers' = (timers \cup {timeout}) \ {timeout}
                   /\ settled' = Undefined
                   /\ pc' = "listener"
                   /\ trace' = Append(trace,
                        Handling(request, controller,
                                 <<UnknownTypeResponse(request)>>, "returned"))
              ELSE /\ controllers' = MapSet(controllers, request.id, controller)
                   /\ timers' = timers \cup {timeout}
                   /\ settled' =
                        Some(Awaited(request, controller \in abortedSignals))
                   /\ pc' = "awaiting"
                   /\ trace' = Append(trace,
                        Handling(request, controller, <<>>, "awaiting"))
                   /\ UNCHANGED outbox
    /\ UNCHANGED <<worker, sent, abortedSignals>>
    /\ UNCHANGED notWorker

\* onmessage after its await, in the microtask checkpoint that follows the
\* callback: the response of a fulfilled promise is posted; a rejection is
\* rethrown; the finally block clears the timer and removes the registration.
Resume ==
    /\ pc = "awaiting"
    /\ LET outcome == Val(settled)
           entry == trace[Len(trace)]
           timeout == [id |-> event.id, controller |-> entry.controller]
           posted == IF outcome.state = "fulfilled"
                     THEN <<outcome.value>> ELSE <<>>
       IN  /\ outbox' = outbox \o posted
           /\ IF RunsFinally(outcome)
              THEN /\ timers' = timers \ {timeout}
                   /\ controllers' = MapDelete(controllers, event.id)
              ELSE UNCHANGED <<timers, controllers>>
           /\ trace' = [trace EXCEPT ![Len(trace)] =
                            Handling(entry.message, entry.controller, posted,
                                     IF outcome.state = "fulfilled"
                                     THEN "returned" ELSE "threw")]
    /\ settled' = Undefined
    /\ pc' = "listener"
    /\ UNCHANGED <<worker, inbox, sent, event, abortedSignals>>
    /\ UNCHANGED notWorker

\* The listener added with addEventListener, called for the same event after
\* onmessage and its microtasks: a cancel aborts and removes the controller
\* registered under its id, when there is one.
CancelListener ==
    /\ pc = "listener"
    /\ IF event.type = "cancel" /\ event.id # "" /\ event.id \in DOMAIN controllers
       THEN /\ abortedSignals' = abortedSignals \cup {controllers[event.id]}
            /\ controllers' = MapDelete(controllers, event.id)
       ELSE UNCHANGED <<abortedSignals, controllers>>
    /\ pc' = "idle"
    /\ event' = Null
    /\ UNCHANGED <<worker, inbox, sent, settled, timers, outbox, trace>>
    /\ UNCHANGED notWorker

\* The callback of a deadline timer, run as a task of its own: it aborts the
\* controller and removes the registration of the id.
DeadlineTimer ==
    /\ pc = "idle"
    /\ \E timeout \in timers :
         /\ timers' = timers \ {timeout}
         /\ abortedSignals' = abortedSignals \cup {timeout.controller}
         /\ controllers' = MapDelete(controllers, timeout.id)
    /\ UNCHANGED <<worker, inbox, sent, pc, event, settled, outbox, trace>>
    /\ UNCHANGED notWorker

(***************************************************************************)
(* The analysis functions on texts of a bounded domain                     *)
(***************************************************************************)
\* The most words a text of words has.
MaxWords == 4

\* The words of the texts keywords are taken from: two words, one with a
\* capital and a comma, two numbers, a word of three letters, a stop word.
WordAlphabet == {"zebra", "Apple,", "2024", "1999", "fox", "there"}

\* The texts of up to n words, a space between them.
RECURSIVE WordTexts(_)
WordTexts(n) ==
    IF n = 0 THEN {""}
    ELSE WordTexts(n - 1)
            \cup {IF t = "" THEN w ELSE t \o " " \o w :
                    t \in WordTexts(n - 1), w \in WordAlphabet}

\* The example of keyword extraction.
ExampleText == "the quick brown fox jumps over the lazy dog quick fox"

\* Every text of words and the example, with maxKeywords left out, 0, 2, 10.
KeywordsInit ==
    /\ aText \in WordTexts(MaxWords) \cup {ExampleText}
    /\ aMaxKeywords \in {Undefined, Some(0), Some(2), Some(10)}
    /\ aResult = Undefined

\* The most pieces a text to score has.
MaxScorePieces == 4

\* The pieces of the texts that are scored: words of one to four syllables,
\* sentence ends, white space.
ScoreAlphabet == {"Hi", "table", "readability", ". ", "!", " ", "\n"}

\* The texts of up to n pieces.
RECURSIVE ScoreTexts(_)
ScoreTexts(n) ==
    IF n = 0 THEN {""}
    ELSE ScoreTexts(n - 1)
            \cup {t \o p : t \in ScoreTexts(n - 1), p \in ScoreAlphabet}

\* Every text of pieces, the empty text and the texts of white space among
\* them.
ScoreInit ==
    /\ aText \in ScoreTexts(MaxScorePieces)
    /\ aMaxKeywords = Undefined
    /\ aResult = Undefined

\* The most characters of a token whose syllables are counted.
MaxTokenLen == 5

\* The characters of the tokens: vowels, consonants, a capital, a digit.
TokenAlphabet == {"a", "g", "o", "e", "l", "E", "1"}

\* The tokens of up to n characters.
RECURSIVE Tokens(_)
Tokens(n) ==
    IF n = 0 THEN {""}
    ELSE Tokens(n - 1) \cup {t \o c : t \in Tokens(n - 1), c \in TokenAlphabet}

SyllablesInit ==
    /\ aText \in Tokens(MaxTokenLen)
    /\ aMaxKeywords = Undefined
    /\ aResult = Undefined

\* countSyllables called on the token.
CountSyllables ==
    /\ aResult = Undefined
    /\ aResult' = Some([syllables |-> countSyllables(aText)])
    /\ UNCHANGED <<aText, aMaxKeywords>>
    /\ UNCHANGED notAnalysis

AnalysisRest ==
    /\ aText = ""
    /\ aMaxKeywords = Undefined
    /\ aResult = Undefined

\* extractKeywords, extractiveSummarize and calculateReadabilityScore called
\* on the text.
Analyze ==
    /\ aResult = Undefined
    /\ aResult' = Some([keywords |-> extractKeywords(aText, aMaxKeywords),
                        summary |-> extractiveSummarize(aText, Undefined),
                        score |-> calculateReadabilityScore(aText)])
    /\ UNCHANGED <<aText, aMaxKeywords>>
    /\ UNCHANGED notAnalysis

(***************************************************************************)
(* The action router (models.ts 184-338) over chrome.storage.local and     *)
(* chrome.permissions. A handler runs up to its next await in one step;    *)
(* the storage serves the reads and writes in the order they were issued,  *)
(* so a read takes the stored value when the handler issues it.            *)
(***************************************************************************)
\* The most calls of actionRouter, and the most of them waiting at once.
MaxCalls == 3
MaxWaiting == 2

\* The hostnames of the payloads: a site, and a name every object inherits.
Hostnames == {"a.example", "constructor"}
\* The feature names of the payloads.
FeatureNames == {"copyRewrite", "observers", "autofill"}
\* The actions that read or write the whitelist.
WhitelistActions ==
    {"checkPermissions", "requestSiteAccess", "enableFeature",
     "disableFeature", "removeSiteAccess"}

\* {}: an object without own properties.
EmptyObject == [k \in {} |-> 0]

\* object?.[key]: the own property, else what Object.prototype gives for the
\* name (for constructor the function Object, for __proto__ the prototype:
\* objects that are truthy and have no enumerable property), else undefined.
Lookup(object, key) ==
    IF key \in DOMAIN object THEN Some(object[key])
    ELSE IF key \in InheritedNames THEN Some(EmptyObject)
    ELSE Undefined

\* {...object, [key]: value}
Spread(object, key, value) ==
    [k \in DOMAIN object \cup {key} |-> IF k = key THEN value ELSE object[k]]

\* The entry handleRequestSiteAccess writes for a hostname.
NewSite(now) ==
    [enabled |-> TRUE,
     features |-> [copyRewrite |-> FALSE, observers |-> FALSE, autofill |-> FALSE],
     addedAt |-> now]

\* handleCheckPermissions: what it returns for the whitelist it read.
handleCheckPermissions(whitelist, hostname) ==
    LET sitePerms == Lookup(whitelist, hostname)
        enabled == IF IsDefined(sitePerms) THEN Lookup(Val(sitePerms), "enabled")
                   ELSE Undefined
        features == IF IsDefined(sitePerms)
                    THEN Lookup(Val(sitePerms), "features")
                    ELSE Undefined
    IN  [enabled |-> IF IsDefined(enabled) THEN Val(enabled) ELSE FALSE,
         features |-> IF IsDefined(features) THEN Val(features) ELSE EmptyObject]

\* The whitelist handleEnableFeature (value true) and handleDisableFeature
\* (value false) write when the hostname has an entry: the entry spread, its
\* features spread with the feature set. sitePerms.features of an entry
\* without features is undefined, and spreads to nothing.
WithFeature(whitelist, hostname, feature, value) ==
    LET sitePerms == Val(Lookup(whitelist, hostname))
        features == IF "features" \in DOMAIN sitePerms THEN sitePerms.features
                    ELSE EmptyObject
    IN  Spread(whitelist, hostname,
               Spread(sitePerms, "features", Spread(features, feature, value)))

\* A call of actionRouter that has not returned: the message, the await the
\* handler is at ("prompt": chrome.permissions.request, "get":
\* chrome.storage.local.get, "set": chrome.storage.local.set), and the
\* whitelist its get read.
Call(action, hostname, feature, at, whitelist) ==
    [action |-> action, hostname |-> hostname, feature |-> feature,
     at |-> at, whitelist |-> whitelist]

\* A call that returned: the message, whether the prompt was granted where
\* there was one, the whitelist the handler read where it read one, how the
\* promise settled, and the stored whitelist before and after the step that
\* settled it.
ReturnedCall(call, granted, settlement, stored, storedAfter) ==
    [action |-> call.action, hostname |-> call.hostname,
     feature |-> call.feature, granted |-> granted, read |-> call.whitelist,
     settlement |-> settlement, stored |-> stored, storedAfter |-> storedAfter]

Without1(seq, i) == SubSeq(seq, 1, i - 1) \o SubSeq(seq, i + 1, Len(seq))

\* After chrome.runtime.onInstalled (serviceWorker.ts 24-43): the whitelist
\* is {} and no host permission is granted.
RouterInit ==
    /\ siteWhitelist = EmptyObject
    /\ origins = {}
    /\ calls = <<>>
    /\ callCount = 0
    /\ returned = <<>>

RouterRest == RouterInit

\* actionRouter(message, sender) up to the first await of the handler:
\* handleRequestSiteAccess asks for the host permission, the others read the
\* whitelist.
ActionRouter(action, hostname, feature) ==
    /\ callCount < MaxCalls
    /\ Len(calls) < MaxWaiting
    /\ callCount' = callCount + 1
    /\ calls' = Append(calls,
                  IF action = "requestSiteAccess"
                  THEN Call(action, hostname, feature, "prompt", Undefined)
                  ELSE Call(action, hostname, feature, "get",
                            Some(siteWhitelist)))
    /\ UNCHANGED <<siteWhitelist, origins, returned>>
    /\ UNCHANGED notRouter

\* A message of each action: enableFeature and disableFeature name a feature.
Dispatch ==
    \E action \in WhitelistActions, hostname \in Hostnames :
        \E feature \in IF action \in {"enableFeature", "disableFeature"}
                       THEN {Some(f) : f \in FeatureNames}
                       ELSE {Undefined} :
            ActionRouter(action, hostname, feature)

\* handleCheckPermissions after its get.
CheckPermissionsReturns ==
    \E i \in 1 .. Len(calls) :
        /\ calls[i].action = "checkPermissions"
        /\ calls' = Without1(calls, i)
        /\ returned' = Append(returned,
              ReturnedCall(calls[i], Undefined,
                       Fulfilled(handleCheckPermissions(Val(calls[i].whitelist),
                                                        calls[i].hostname)),
                       siteWhitelist, siteWhitelist))
        /\ UNCHANGED <<siteWhitelist, origins, callCount>>
        /\ UNCHANGED notRouter

\* handleRequestSiteAccess after chrome.permissions.request: not granted, it
\* returns; granted, the browser holds the origin and the handler reads the
\* whitelist.
PromptAnswered ==
    \E i \in 1 .. Len(calls), granted \in BOOLEAN :
        /\ calls[i].action = "requestSiteAccess"
        /\ calls[i].at = "prompt"
        /\ IF granted
           THEN /\ origins' = origins \cup {calls[i].hostname}
                /\ calls' = [calls EXCEPT ![i] =
                                Call(@.action, @.hostname, @.feature, "get",
                                     Some(siteWhitelist))]
                /\ UNCHANGED returned
           ELSE /\ calls' = Without1(calls, i)
                /\ returned' = Append(returned,
                      ReturnedCall(calls[i], Some(FALSE),
                               Fulfilled([success |-> FALSE]),
                               siteWhitelist, siteWhitelist))
                /\ UNCHANGED origins
        /\ UNCHANGED <<siteWhitelist, callCount>>
        /\ UNCHANGED notRouter

\* handleRequestSiteAccess after its get: it writes the whitelist it read
\* with the entry of the hostname new, and returns.
RequestSiteAccessStores ==
    \E i \in 1 .. Len(calls) :
        /\ calls[i].action = "requestSiteAccess"
        /\ calls[i].at = "get"
        /\ siteWhitelist' = Spread(Val(calls[i].whitelist), calls[i].hostname,
                                   NewSite(callCount))
        /\ calls' = Without1(calls, i)
        /\ returned' = Append(returned,
              ReturnedCall(calls[i], Some(TRUE), Fulfilled([success |-> TRUE]),
                       siteWhitelist, siteWhitelist'))
        /\ UNCHANGED <<origins, callCount>>
        /\ UNCHANGED notRouter

\* handleEnableFeature (value true) and handleDisableFeature (value false)
\* after their get: without an entry for the hostname they throw, else they
\* write the whitelist they read with the feature set, and return.
FeatureStored(i, value) ==
    /\ calls[i].at = "get"
    /\ LET whitelist == Val(calls[i].whitelist)
           hostname == calls[i].hostname
       IN  IF ~IsDefined(Lookup(whitelist, hostname))
           THEN /\ returned' = Append(returned,
                      ReturnedCall(calls[i], Undefined,
                               Rejected("Site not whitelisted"),
                               siteWhitelist, siteWhitelist))
                /\ UNCHANGED siteWhitelist
           ELSE /\ siteWhitelist' = WithFeature(whitelist, hostname,
                                                Val(calls[i].feature), value)
                /\ returned' = Append(returned,
                      ReturnedCall(calls[i], Undefined,
                               Fulfilled([success |-> TRUE]),
                               siteWhitelist, siteWhitelist'))
    /\ calls' = Without1(calls, i)
    /\ UNCHANGED <<origins, callCount>>
    /\ UNCHANGED notRouter

EnableFeatureStores ==
    \E i \in 1 .. Len(calls) :
        calls[i].action = "enableFeature" /\ FeatureStored(i, TRUE)

DisableFeatureStores ==
    \E i \in 1 .. Len(calls) :
        calls[i].action = "disableFeature" /\ FeatureStored(i, FALSE)

\* handleRemoveSiteAccess after its get: it writes the whitelist it read
\* without the hostname.
RemoveSiteAccessStores ==
    \E i \in 1 .. Len(calls) :
        /\ calls[i].action = "removeSiteAccess"
        /\ calls[i].at = "get"
        /\ siteWhitelist' = [h \in DOMAIN Val(calls[i].whitelist)
                                      \ {calls[i].hostname} |->
                                Val(calls[i].whitelist)[h]]
        /\ calls' = [calls EXCEPT ![i] =
                        Call(@.action, @.hostname, @.feature, "set", @.whitelist)]
        /\ UNCHANGED <<origins, callCount, returned>>
        /\ UNCHANGED notRouter

\* handleRemoveSiteAccess after its set: the origin is removed, and it
\* returns.
RemoveSiteAccessReturns ==
    \E i \in 1 .. Len(calls) :
        /\ calls[i].action = "removeSiteAccess"
        /\ calls[i].at = "set"
        /\ origins' = origins \ {calls[i].hostname}
        /\ calls' = Without1(calls, i)
        /\ returned' = Append(returned,
              ReturnedCall(calls[i], Undefined, Fulfilled([success |-> TRUE]),
                           siteWhitelist, siteWhitelist))
        /\ UNCHANGED <<siteWhitelist, callCount>>
        /\ UNCHANGED notRouter

(***************************************************************************)
(* sanitizeURL (sanitizer.ts 24-35) and the URL parser it calls, for URLs  *)
(* without credentials, port, backslash, quote, dot segment or percent    *)
(* sign and with a host of ASCII names                                     *)
(***************************************************************************)
\* The first position of t that holds one of the characters, 0 without one.
FirstIndex(t, chars) ==
    LET hits == {i \in 1 .. Len(t) : CharAt(t, i) \in chars}
    IN  IF hits = {} THEN 0 ELSE Least(hits)

\* t up to the first of the characters, and t from it on.
Before(t, chars) ==
    IF FirstIndex(t, chars) = 0 THEN t
    ELSE SubSeq(t, 1, FirstIndex(t, chars) - 1)
From(t, chars) ==
    IF FirstIndex(t, chars) = 0 THEN ""
    ELSE SubSeq(t, FirstIndex(t, chars), Len(t))

\* The characters of a scheme after its first, which is a letter.
SchemeChars ==
    CharsOf(LowerCaseLetters) \cup CharsOf(UpperCaseLetters)
        \cup CharsOf(Digits) \cup {"+", "-", "."}
\* The schemes whose URLs have a host.
SpecialSchemes == {"http", "https", "ftp", "ws", "wss"}
\* The characters a host must not hold, of those that can reach it.
ForbiddenHostChars == {" ", "\t", "\n", "<", ">", "[", "]", "^", "|", "%"}

\* The percent-encoding of a character.
PercentCode(c) ==
    CASE c = " " -> "%20"
      [] c = "<" -> "%3C"
      [] c = ">" -> "%3E"
\* The characters encoded in a path, in a query and in a fragment, of those
\* the URLs checked hold.
PathEncodeSet == {" ", "<", ">"}
QueryEncodeSet == {" ", "<", ">"}
FragmentEncodeSet == {" ", "<", ">"}

\* t with the characters of the set percent-encoded.
RECURSIVE PercentEncode(_, _)
PercentEncode(t, encoded) ==
    LET i == FirstIndex(t, encoded)
    IN  IF i = 0 THEN t
        ELSE SubSeq(t, 1, i - 1) \o PercentCode(CharAt(t, i))
                \o PercentEncode(SubSeq(t, i + 1, Len(t)), encoded)

\* t without the slashes it starts with.
AfterSlashes(t) ==
    LET others == {i \in 1 .. Len(t) : CharAt(t, i) # "/"}
    IN  IF others = {} THEN "" ELSE SubSeq(t, Least(others), Len(t))

\* new URL(url): undefined when it throws, else the protocol, host, pathname,
\* search and hash of the URL. Spaces around the input are dropped; the scheme
\* runs up to the first colon, and is lowercased. The URL of a special scheme
\* has, after any slashes, a host up to the first of / ? #, lowercased, which
\* is not empty and holds no forbidden character; its path is / when empty.
\* For the other schemes what follows the colon is kept as the path.
ParseURL(input) ==
    LET trimmed == Trim(input)
        colon == FirstIndex(trimmed, {":"})
        name == SubSeq(trimmed, 1, colon - 1)
        scheme == ToLowerCase(name)
        rest == SubSeq(trimmed, colon + 1, Len(trimmed))
        authority == Before(AfterSlashes(rest), {"/", "?", "#"})
        host == ToLowerCase(authority)
        afterHost == From(AfterSlashes(rest), {"/", "?", "#"})
        path == Before(afterHost, {"?", "#"})
        query == Before(From(afterHost, {"?", "#"}), {"#"})
        fragment == From(afterHost, {"#"})
    IN  IF \/ colon <= 1
           \/ CharAt(trimmed, 1) \notin
                 CharsOf(LowerCaseLetters) \cup CharsOf(UpperCaseLetters)
           \/ ~(CharsOf(name) \subseteq SchemeChars)
        THEN Undefined
        ELSE IF scheme \notin SpecialSchemes
        THEN Some([protocol |-> scheme \o ":", host |-> "", pathname |-> rest,
                   search |-> "", hash |-> ""])
        ELSE IF host = "" \/ CharsOf(host) \cap ForbiddenHostChars # {}
        THEN Undefined
        ELSE Some([protocol |-> scheme \o ":",
                   host |-> host,
                   pathname |-> IF path = "" THEN "/"
                                ELSE PercentEncode(path, PathEncodeSet),
                   search |-> PercentEncode(query, QueryEncodeSet),
                   hash |-> PercentEncode(fragment, FragmentEncodeSet)])

\* parsed.toString() of a URL with a host: the serialization.
Href(parsed) ==
    parsed.protocol \o "//" \o parsed.host \o parsed.pathname
        \o parsed.search \o parsed.hash

\* sanitizeURL(url)
sanitizeURL(input) ==
    LET parsed == ParseURL(input)
    IN  IF ~IsDefined(parsed) THEN ""
        ELSE IF Val(parsed).protocol \notin {"http:", "https:"} THEN ""
        ELSE Href(Val(parsed))

\* What the arguments start with: a scheme in either case, with a space
\* before it, no scheme, one that starts with a digit.
URLStarts ==
    {"http:", "https:", "HTTPS:", "ftp:", "javascript:", "data:", "",
     " http:", "1http:"}
\* And what follows.
URLRests ==
    {"//example.com", "//example.com/", "//example.com/path?query=1",
     "//Example.COM/a", "/example.com", "example.com/a b#top",
     "alert(1)", "not a url", "//", "//exa mple.com",
     "text/html,<script>alert(1)</script>", ""}

SanitizerInit ==
    /\ url \in {start \o rest : start \in URLStarts, rest \in URLRests}
    /\ sanitized = Undefined

SanitizerRest ==
    /\ url = ""
    /\ sanitized = Undefined

SanitizeURL ==
    /\ sanitized = Undefined
    /\ sanitized' = Some(sanitizeURL(url))
    /\ UNCHANGED url
    /\ UNCHANGED notSanitizer

(***************************************************************************)
(* The content script: bootstrap (contentBootstrap.ts 15-74), the copy     *)
(* interceptor (copyInterceptor.ts 6-20) and the scoped observer           *)
(* (contentBootstrap.ts 90-117)                                            *)
(***************************************************************************)
\* The most calls of init a page makes on one feature, the bootstrap's
\* included.
MaxInitCalls == 3

\* The hostnames of the pages: a site with an entry, one without, and a name
\* every object inherits.
PageHostnames == {"a.example", "b.example", "constructor"}

\* The whitelists the router has stored: nothing; a.example as
\* handleRequestSiteAccess adds it, with any flags set since; the entry
\* handleEnableFeature writes for the hostname constructor, which has no
\* enabled property.
BootWhitelists ==
    {EmptyObject}
      \cup {Spread(EmptyObject, "a.example",
                   [enabled |-> TRUE,
                    features |-> [copyRewrite |-> c, observers |-> o,
                                  autofill |-> a],
                    addedAt |-> 1]) : c, o, a \in BOOLEAN}
      \cup {WithFeature(EmptyObject, "constructor", "copyRewrite", TRUE)}

\* What checkPermissions returns: the answer of handleCheckPermissions for the
\* hostname of the page, the { error } answer of the listener's catch
\* (serviceWorker.ts 49-52), or null (sendMessage threw, or there was no
\* answer, which is as falsy).
Responses ==
    {handleCheckPermissions(siteWhitelist, location.hostname),
     [error |-> "Error"],
     Null}

\* !permissions || !permissions.enabled
NotEnabled(response) ==
    \/ response = Null
    \/ "enabled" \notin DOMAIN response
    \/ response.enabled # TRUE

\* if (features[name])
FeatureFlag(response, name) ==
    /\ name \in DOMAIN response.features
    /\ response.features[name] = TRUE

\* target.addEventListener(type, callback): a callback the target has for the
\* type is not added again.
AddEventListener(listeners, callback) ==
    IF \E i \in 1 .. Len(listeners) : listeners[i] = callback THEN listeners
    ELSE Append(listeners, callback)
\* target.removeEventListener(type, callback)
RemoveEventListener(listeners, callback) ==
    SelectSeq(listeners, LAMBDA l : l # callback)

\* copyInterceptor.init(); calls counts the calls of init.
CopyInterceptorInit(c) ==
    IF c.initialized THEN [c EXCEPT !.calls = @ + 1]
    ELSE [initialized |-> TRUE,
          listeners |-> AddEventListener(c.listeners, "handleCopy"),
          calls |-> c.calls + 1]
\* copyInterceptor.destroy()
CopyInterceptorDestroy(c) ==
    [c EXCEPT !.initialized = FALSE,
              !.listeners = RemoveEventListener(@, "handleCopy")]

\* scopedObserver.init(): a new MutationObserver observes document.body.
ScopedObserverInit(o) ==
    IF o.initialized THEN [o EXCEPT !.calls = @ + 1]
    ELSE [initialized |-> TRUE, observing |-> o.observing + 1,
          calls |-> o.calls + 1]
\* scopedObserver.destroy(): the observer, when there is one, is disconnected.
ScopedObserverDestroy(o) ==
    [o EXCEPT !.initialized = FALSE,
              !.observing = IF o.initialized THEN @ - 1 ELSE @]

\* initializeFeatures starts every feature, whatever its flag.
InitializeEveryFeature(response, c, o) ==
    [copyInterceptor |-> CopyInterceptorInit(c),
     scopedObserver |-> ScopedObserverInit(o)]

\* initializeFeatures(permissions): the two features after it.
initializeFeatures(response, c, o) ==
    [copyInterceptor |->
        IF FeatureFlag(response, "copyRewrite") THEN CopyInterceptorInit(c)
        ELSE c,
     scopedObserver |->
        IF FeatureFlag(response, "observers") THEN ScopedObserverInit(o)
        ELSE o]

\* A page as the content script finds it.
BootstrapInit ==
    /\ location \in [protocol : {"https:", "chrome-extension:"},
                     hostname : PageHostnames]
    /\ bootPc = "start"
    /\ permissions = Undefined
    /\ copyInterceptor = [initialized |-> FALSE, listeners |-> <<>>, calls |-> 0]
    /\ scopedObserver = [initialized |-> FALSE, observing |-> 0, calls |-> 0]

BootstrapRest ==
    /\ location = [protocol |-> "https:", hostname |-> "a.example"]
    /\ bootPc = "start"
    /\ permissions = Undefined
    /\ copyInterceptor = [initialized |-> FALSE, listeners |-> <<>>, calls |-> 0]
    /\ scopedObserver = [initialized |-> FALSE, observing |-> 0, calls |-> 0]

\* bootstrap() up to its await: it returns on a page of the extension, else
\* checkPermissions sends the message.
Bootstrap ==
    /\ bootPc = "start"
    /\ bootPc' = IF location.protocol = "chrome-extension:" THEN "returned"
                 ELSE "checking"
    /\ UNCHANGED <<location, permissions, copyInterceptor, scopedObserver>>
    /\ UNCHANGED notBootstrap

\* checkPermissions returns.
CheckPermissions ==
    /\ bootPc = "checking"
    /\ \E response \in Responses : permissions' = Some(response)
    /\ bootPc' = "checked"
    /\ UNCHANGED <<location, copyInterceptor, scopedObserver>>
    /\ UNCHANGED notBootstrap

\* bootstrap() after its await: it returns when the site is not enabled, else
\* initializeFeatures runs.
BootstrapResumes ==
    /\ bootPc = "checked"
    /\ IF NotEnabled(Val(permissions))
       THEN /\ bootPc' = "returned"
            /\ UNCHANGED <<copyInterceptor, scopedObserver>>
       ELSE LET after == initializeFeatures(Val(permissions), copyInterceptor,
                                            scopedObserver)
            IN  /\ bootPc' = "initialized"
                /\ copyInterceptor' = after.copyInterceptor
                /\ scopedObserver' = after.scopedObserver
    /\ UNCHANGED <<location, permissions>>
    /\ UNCHANGED notBootstrap

\* The page calls init again on a feature the bootstrap started.
InitCalled ==
    /\ bootPc = "initialized"
    /\ \/ /\ FeatureFlag(Val(permissions), "copyRewrite")
          /\ copyInterceptor.calls < MaxInitCalls
          /\ copyInterceptor' = CopyInterceptorInit(copyInterceptor)
          /\ UNCHANGED scopedObserver
       \/ /\ FeatureFlag(Val(permissions), "observers")
          /\ scopedObserver.calls < MaxInitCalls
          /\ scopedObserver' = ScopedObserverInit(scopedObserver)
          /\ UNCHANGED copyInterceptor
    /\ UNCHANGED <<location, bootPc, permissions>>
    /\ UNCHANGED notBootstrap

\* The page calls destroy on a feature the bootstrap started.
DestroyCalled ==
    /\ bootPc = "initialized"
    /\ \/ /\ FeatureFlag(Val(permissions), "copyRewrite")
          /\ copyInterceptor' = CopyInterceptorDestroy(copyInterceptor)
          /\ UNCHANGED scopedObserver
       \/ /\ FeatureFlag(Val(permissions), "observers")
          /\ scopedObserver' = ScopedObserverDestroy(scopedObserver)
          /\ UNCHANGED copyInterceptor
    /\ UNCHANGED <<location, bootPc, permissions>>
    /\ UNCHANGED notBootstrap

(***************************************************************************)
(* The specifications                                                      *)
(***************************************************************************)
UndoNext ==
    \/ Push
    \/ Pop
    \/ Clear

InitUndo ==
    UndoInit /\ CacheRest /\ PipelineRest /\ WorkerRest /\ AnalysisRest /\ RouterRest
        /\ SanitizerRest
        /\ BootstrapRest

SpecUndo == InitUndo /\ [][UndoNext]_vars

CacheNext ==
    \/ \E k \in Keys : PutEntry(k)
    \/ \E k \in Keys : UpdateAccessTime(k)
    \/ EvictScan
    \/ EvictDelete
    \/ EvictComplete

InitCache ==
    CacheInit /\ UndoRest /\ PipelineRest /\ WorkerRest /\ AnalysisRest /\ RouterRest
        /\ SanitizerRest
        /\ BootstrapRest

SpecCache == InitCache /\ [][CacheNext]_vars

PipelineNext == Transform

InitPipeline ==
    PipelineInit /\ UndoRest /\ CacheRest /\ WorkerRest /\ AnalysisRest /\ RouterRest
        /\ SanitizerRest
        /\ BootstrapRest

SpecPipeline == InitPipeline /\ [][PipelineNext]_vars

InitConcise ==
    ConciseInit /\ UndoRest /\ CacheRest /\ WorkerRest /\ AnalysisRest /\ RouterRest
        /\ SanitizerRest
        /\ BootstrapRest

SpecConcise == InitConcise /\ [][PipelineNext]_vars

InitLength ==
    LengthInit /\ UndoRest /\ CacheRest /\ WorkerRest /\ AnalysisRest /\ RouterRest
        /\ SanitizerRest
        /\ BootstrapRest

SpecLength == InitLength /\ [][PipelineNext]_vars

InitCustom ==
    CustomInit /\ UndoRest /\ CacheRest /\ WorkerRest /\ AnalysisRest /\ RouterRest
        /\ SanitizerRest
        /\ BootstrapRest

SpecCustom == InitCustom /\ [][PipelineNext]_vars

AnalysisNext == Analyze

InitKeywords ==
    KeywordsInit /\ UndoRest /\ CacheRest /\ PipelineRest /\ WorkerRest
        /\ RouterRest /\ SanitizerRest
        /\ BootstrapRest

SpecKeywords == InitKeywords /\ [][AnalysisNext]_vars

InitScore ==
    ScoreInit /\ UndoRest /\ CacheRest /\ PipelineRest /\ WorkerRest
        /\ RouterRest /\ SanitizerRest
        /\ BootstrapRest

SpecScore == InitScore /\ [][AnalysisNext]_vars

SyllablesNext == CountSyllables

InitSyllables ==
    SyllablesInit /\ UndoRest /\ CacheRest /\ PipelineRest /\ WorkerRest
        /\ RouterRest /\ SanitizerRest
        /\ BootstrapRest

SpecSyllables == InitSyllables /\ [][SyllablesNext]_vars

RouterNext ==
    \/ Dispatch
    \/ CheckPermissionsReturns
    \/ PromptAnswered
    \/ RequestSiteAccessStores
    \/ EnableFeatureStores
    \/ DisableFeatureStores
    \/ RemoveSiteAccessStores
    \/ RemoveSiteAccessReturns

InitRouter ==
    RouterInit /\ UndoRest /\ CacheRest /\ PipelineRest /\ WorkerRest
        /\ AnalysisRest /\ SanitizerRest
        /\ BootstrapRest

SpecRouter == InitRouter /\ [][RouterNext]_vars

SanitizerNext == SanitizeURL

InitSanitizer ==
    SanitizerInit /\ UndoRest /\ CacheRest /\ PipelineRest /\ WorkerRest
        /\ AnalysisRest /\ RouterRest
        /\ BootstrapRest

SpecSanitizer == InitSanitizer /\ [][SanitizerNext]_vars

BootstrapNext ==
    \/ Bootstrap
    \/ CheckPermissions
    \/ BootstrapResumes
    \/ InitCalled
    \/ DestroyCalled

\* The router rests with one of the whitelists stored.
InitBootstrap ==
    /\ BootstrapInit
    /\ siteWhitelist \in BootWhitelists
    /\ origins = {}
    /\ calls = <<>>
    /\ callCount = 0
    /\ returned = <<>>
    /\ UndoRest /\ CacheRest /\ PipelineRest /\ WorkerRest /\ AnalysisRest
    /\ SanitizerRest

SpecBootstrap == InitBootstrap /\ [][BootstrapNext]_vars

\* The deadline timer is left out of the steps: a timer is pending only
\* between OnMessage and Resume, where no task can run (TimerNeverDue).
WorkerNext ==
    \/ Post
    \/ OnMessage
    \/ Resume
    \/ CancelListener

InitWorker ==
    WorkerInit /\ UndoRest /\ CacheRest /\ PipelineRest /\ AnalysisRest /\ RouterRest
        /\ SanitizerRest
        /\ BootstrapRest

SpecWorker == InitWorker /\ [][WorkerNext]_vars

(***************************************************************************)
(* The workers: cancellation, cleanup, responses                           *)
(***************************************************************************)
IsCancel(message) == message.type = "cancel"

\* The dispatched messages whose handling has ended.
Handled == {i \in 1 .. Len(trace) : trace[i].ending # "awaiting"}

\* The statuses of the responses posted while message i was handled.
StatusesPosted(i) ==
    {trace[i].posted[k].status : k \in 1 .. Len(trace[i].posted)}

\* Message i is a request, and a cancel with its id was dispatched before it
\* and before any other request with that id.
CancelledBeforeDispatch(i) ==
    /\ ~IsCancel(trace[i].message)
    /\ \E j \in 1 .. i - 1 :
         /\ trace[j].message = CancelMessage(trace[i].message.id)
         /\ \A k \in 1 .. j - 1 :
              trace[k].message.id = trace[i].message.id
                  => IsCancel(trace[k].message)

\* C1: a request whose cancel was delivered before it was dispatched is
\* answered with the error status, and no response with status ok is posted
\* for it.
C1_CancelledRequestNeverOk ==
    \A i \in Handled :
        CancelledBeforeDispatch(i) => StatusesPosted(i) \subseteq {"err"}

\* C2: when no request is being handled (its handling has ended by a posted
\* response, by the unknown-type branch or by an exception), the table of
\* controllers is empty and no deadline timer is pending.
C2_NothingLeftRegistered ==
    pc # "awaiting" => DOMAIN controllers = {} /\ timers = {}

\* The callback of a deadline timer never gets to run: no timer is pending
\* when the worker is ready for its next task.
TimerNeverDue == ~ENABLED DeadlineTimer

\* Both messages handled, one by a posted ok response and one by an exception
\* thrown before a response was built, and a registration was made for each.
C2_Witness ==
    /\ pc = "idle"
    /\ \E i, j \in Handled :
         /\ trace[i].ending = "threw"
         /\ trace[j].ending = "returned"
         /\ StatusesPosted(j) = {"ok"}
         /\ trace[i].controller # trace[j].controller

\* A request is malformed for the worker that gets it: a type it does not
\* know, no payload, or no text.
Malformed(message) ==
    \/ message.type \notin
          (IF worker = "nlp" THEN NLPTypes ELSE {"transform", "analyze"})
    \/ ~IsDefined(message.payload)
    \/ ~IsDefined(Val(message.payload).text)

\* C3: every request that is not a cancel is answered by exactly one response
\* with its id, and a malformed one by a response with the error status.
C3_EveryRequestAnsweredOnce ==
    \A i \in Handled :
        ~IsCancel(trace[i].message) =>
            /\ Len(trace[i].posted) = 1
            /\ trace[i].posted[1].id = trace[i].message.id
            /\ Malformed(trace[i].message) => StatusesPosted(i) = {"err"}

\* C4: a cancel message has no response posted for it, and no registration
\* and no timer exists on its account while or after it is dispatched.
C4_CancelHasNoResponse ==
    /\ \A i \in 1 .. Len(trace) :
         IsCancel(trace[i].message) => trace[i].posted = <<>>
    /\ (event # Null /\ IsCancel(event)) =>
            /\ event.id \notin DOMAIN controllers
            /\ \A timeout \in timers : timeout.id # event.id

\* The responses posted, in the order of the messages they were posted for.
RECURSIVE PostedUpTo(_)
PostedUpTo(n) ==
    IF n = 0 THEN <<>> ELSE PostedUpTo(n - 1) \o trace[n].posted

\* The length stage shortens the text of a transform request and a later
\* stage throws.
StageFailsAfterRewrite(message) ==
    /\ worker = "transform"
    /\ message.type = "transform"
    /\ IsDefined(message.payload)
    /\ LET text == Val(message.payload).text
           settings == Val(message.payload).settings
       IN  /\ IsDefined(text)
           /\ Truthy(settings.length)
           /\ applyLengthTransform(text, Val(settings.length),
                                   settings.customLength).text # text
           /\ ~RunStages(text, settings).ok

\* C5: every response posted has the id of the message it answers, a result
\* exactly when its status is ok and an error exactly when its status is err;
\* the response to a request whose stage failed after an earlier stage rewrote
\* the text has no result.
C5_ResponseShape ==
    /\ outbox = PostedUpTo(Len(trace))
    /\ \A i \in 1 .. Len(trace) :
         \A k \in 1 .. Len(trace[i].posted) :
            LET response == trace[i].posted[k]
            IN  /\ response.id = trace[i].message.id
                /\ response.status \in {"ok", "err"}
                /\ IsDefined(response.result) <=> response.status = "ok"
                /\ IsDefined(response.error) <=> response.status = "err"
                /\ StageFailsAfterRewrite(trace[i].message)
                      => response.result = Undefined

\* An ok response and the err response of a failed stage have been posted.
C5_Witness ==
    /\ pc = "idle"
    /\ \E i, j \in Handled :
         /\ StageFailsAfterRewrite(trace[i].message)
         /\ StatusesPosted(i) = {"err"}
         /\ StatusesPosted(j) = {"ok"}

(***************************************************************************)
(* The recency cache: evictOldest                                          *)
(***************************************************************************)
Range(s) == {s[i] : i \in DOMAIN s}

\* The keys evictOldest removed, once it has completed.
Evicted == DOMAIN before \ DOMAIN store

\* The access times evictOldest's scan found are all different.
DistinctTimes ==
    \A j, k \in DOMAIN before : j # k => before[j] # before[k]

\* C8: after evictOldest completes on a store of n entries, the store holds
\* min(n, maxSize) of them, unchanged, every removed entry was accessed no later
\* than every retained one, and of maxSize + 1 entries with different access
\* times exactly the one accessed first is gone.
C8_EvictKeepsMostRecent ==
    evictPc = "done" =>
        /\ DOMAIN store \subseteq DOMAIN before
        /\ Cardinality(DOMAIN store) = Min(Cardinality(DOMAIN before), maxSize)
        /\ \A q \in DOMAIN store : store[q] = before[q]
        /\ \A r \in Evicted : \A q \in DOMAIN store : before[r] <= before[q]
        /\ (Cardinality(DOMAIN before) = maxSize + 1 /\ DistinctTimes) =>
              \E r \in DOMAIN before :
                  /\ Evicted = {r}
                  /\ \A q \in DOMAIN before \ {r} : before[r] < before[q]

\* An eviction of one entry out of maxSize + 1 with different access times.
C8_Witness ==
    /\ evictPc = "done"
    /\ maxSize >= 1
    /\ Cardinality(DOMAIN before) = maxSize + 1
    /\ DistinctTimes
    /\ Cardinality(Evicted) = 1

(***************************************************************************)
(* The undo history                                                        *)
(***************************************************************************)
\* C9: from an empty stack, after any pushAction, popAction and clear the
\* stack holds at most maxActions actions.
C9_AtMostMaxActions == Len(stack.actions) <= maxActions

\* A full stack of the default capacity that has dropped actions and was
\* popped from.
C9_Witness ==
    /\ maxActions = DefaultMaxActions
    /\ Len(stack.actions) = maxActions
    /\ pushCount > maxActions
    /\ lastPop # Null

\* C10: k pushes onto an empty stack leave the min(k, maxActions) actions
\* pushed last, the last one first, under the same site key; the actions
\* pushed before them are gone.
C10_KeepsLastPushed ==
    ~runPopped =>
        LET k == Len(pushedRun)
            n == Min(k, maxActions)
        IN  /\ stack.siteKey \in SiteKeys
            /\ Len(stack.actions) = n
            /\ \A i \in 1 .. n : stack.actions[i] = pushedRun[k - i + 1]
            /\ \A i \in 1 .. (k - n) : pushedRun[i] \notin Range(stack.actions)

\* The default capacity and 5 pushes more.
C10_Witness ==
    /\ ~runPopped
    /\ maxActions = DefaultMaxActions
    /\ Len(pushedRun) = maxActions + 5
    /\ Len(stack.actions) = maxActions
    /\ \A i \in 1 .. 5 : pushedRun[i] \notin Range(stack.actions)

\* C11: popAction on a stack that is not empty returns the action at index 0,
\* the one pushed last of those the stack holds, with a stack of the same site
\* key that holds the other actions in their order; on an empty stack it
\* returns null and the stack as it was.
C11_PopTakesIndexZero ==
    [][Pop =>
        IF stack.actions # <<>>
        THEN /\ lastPop' = stack.actions[1]
             /\ \A a \in Range(stack.actions) :
                    a.timestamp <= lastPop'.timestamp
             /\ stack'.siteKey = stack.siteKey
             /\ Len(stack'.actions) = Len(stack.actions) - 1
             /\ \A i \in 1 .. Len(stack'.actions) :
                    stack'.actions[i] = stack.actions[i + 1]
        ELSE lastPop' = Null /\ stack' = stack]_vars

\* An action was popped from a stack of several actions, which holds the
\* other ones.
C11_Witness ==
    /\ runPopped
    /\ lastPop # Null
    /\ Len(stack.actions) >= 2
    /\ \A i \in 1 .. Len(stack.actions) :
          stack.actions[i].timestamp < lastPop.timestamp

(***************************************************************************)
(* The transform pipeline: the trace and the change ratio                  *)
(***************************************************************************)
\* performTransform has returned a response with status ok.
TransformOk ==
    /\ IsDefined(tSettled)
    /\ Val(tSettled).state = "fulfilled"
    /\ Val(tSettled).value.status = "ok"

tText == Val(tRequest.payload).text
tSettings == Val(tRequest.payload).settings
tResult == Val(Val(tSettled).value.result)

\* A settings field is present and not empty.
Present(o) == o # Undefined /\ o # Some("")

\* The stage a trace entry comes from.
StageOf(r) ==
    CASE r.rule = "length" -> "length"
      [] r.rule \in {"tone", "tone_unchanged"} -> "tone"
      [] r.rule \in {"style", "style_unchanged"} -> "style"

\* The stages the settings ask for, in the order of the pipeline.
StagesAsked(settings) ==
    SelectSeq(<<"length", "tone", "style">>, LAMBDA f : Present(settings[f]))

\* The text after the length stage, and after the tone stage, when each stage
\* asked for is given the text of the one before.
TextAfterLength ==
    IF Present(tSettings.length)
    THEN applyLengthTransform(tText, Val(tSettings.length),
                              tSettings.customLength).text
    ELSE tText
TextAfterTone ==
    IF Present(tSettings.tone)
    THEN applyToneTransform(TextAfterLength, Val(tSettings.tone)).text
    ELSE TextAfterLength
TextAfterStyle ==
    IF Present(tSettings.style)
    THEN applyStyleTransform(TextAfterTone, Val(tSettings.style)).text
    ELSE TextAfterTone

\* C6: the trace of a successful transform has one entry for each of length,
\* tone, style that is present and not empty, in that order, and the text is
\* the one the stages give when each works on the text of the one before.
C6_OneRulePerStageInOrder ==
    TransformOk =>
        /\ Len(tResult.rulesApplied) = Len(StagesAsked(tSettings))
        /\ \A i \in 1 .. Len(tResult.rulesApplied) :
             StageOf(tResult.rulesApplied[i]) = StagesAsked(tSettings)[i]
        /\ Some(tResult.text) = TextAfterStyle

\* Length and style asked for, an empty tone: two entries, and each of the two
\* stages changed the text it was given.
C6_Witness ==
    /\ TransformOk
    /\ Present(tSettings.length)
    /\ tSettings.tone = Some("")
    /\ Present(tSettings.style)
    /\ Len(tResult.rulesApplied) = 2
    /\ TextAfterLength # tText
    /\ TextAfterStyle # TextAfterLength

\* C7: the change ratio of a successful transform is between 0 and 1, and
\* with none of length, tone, style the text is the input, the trace is empty
\* and the ratio is 0.
C7_ChangeRatioInUnitInterval ==
    TransformOk =>
        /\ tResult.changeRatio \in 0 .. 100
        /\ StagesAsked(tSettings) = <<>> =>
              /\ Some(tResult.text) = tText
              /\ tResult.rulesApplied = <<>>
              /\ tResult.changeRatio = 0

\* A text of several words transformed with empty settings.
C7_Witness ==
    /\ TransformOk
    /\ tSettings = NoSettings
    /\ SplitCount(Val(tText)) >= 3
    /\ tResult.changeRatio = 0

(***************************************************************************)
(* The stages on their own                                                 *)
(***************************************************************************)
\* C12: the concise style applied to the text it has produced gives that
\* text again.
C12_ConciseIdempotent ==
    TransformOk =>
        applyStyleTransform(Some(tResult.text), Val(tSettings.style)).text
            = Some(tResult.text)

\* The style took a filler and two runs of whitespace out of a text and left
\* two words.
C12_Witness ==
    /\ TransformOk
    /\ tResult.rulesApplied = <<[rule |-> "style", style |-> "Concise"]>>
    /\ Len(Val(tText)) >= Len(tResult.text) + 10
    /\ SplitCount(Val(tText)) >= 4
    /\ SplitCount(tResult.text) = 2

\* The least integer that is at least num / den, for a positive den.
CeilingOf(num, den) ==
    CHOOSE m \in 0 .. num : m * den >= num /\ (m - 1) * den < num

\* The number of sentences the length stage is to keep of n.
SentencesWanted(n, length) ==
    CASE length = "short" -> CeilingOf(3 * n, 10)
      [] length = "medium" -> CeilingOf(6 * n, 10)
      [] length = "long" -> n

\* C13: of the n sentences of a text the length stage keeps the first
\* ceil(0.3 n) for short, ceil(0.6 n) for medium and all n for long, in their
\* order; the text it gives has that many sentences.
C13_LengthKeepsFirstSentences ==
    TransformOk =>
        LET sentences == Sentences(Val(tText))
            wanted == SentencesWanted(Len(sentences), Val(tSettings.length))
            kept == Sentences(tResult.text)
        IN  /\ Len(kept) = wanted
            /\ \A i \in 1 .. wanted :
                 kept[i] = (IF i = 1 THEN "" ELSE " ") \o sentences[i]

\* Two sentences are kept of a text of four with the length short.
C13_Witness ==
    /\ TransformOk
    /\ tSettings.length = Some("short")
    /\ Len(Sentences(Val(tText))) = 4
    /\ Len(Sentences(tResult.text)) = 2
    /\ tResult.text # Val(tText)


(***************************************************************************)
(* The transform pipeline: names that are not registered                   *)
(***************************************************************************)
\* The tone modes and the style modes.
RegisteredTones == {"formal", "casual", "professional"}
RegisteredStyles == {"concise", "detailed", "technical"}

\* A tone, or a style, is asked for and its name is not a registered one.
UnregisteredTone ==
    Present(tSettings.tone)
        /\ ToLowerCase(Val(tSettings.tone)) \notin RegisteredTones
UnregisteredStyle ==
    Present(tSettings.style)
        /\ ToLowerCase(Val(tSettings.style)) \notin RegisteredStyles

\* The trace entry of a stage that was asked for.
EntryOf(stage) ==
    tResult.rulesApplied[
        CHOOSE i \in 1 .. Len(StagesAsked(tSettings)) :
            StagesAsked(tSettings)[i] = stage]

\* C18: for every tone name that is not formal, casual or professional,
\* whatever its case, the tone stage gives the text it was given and the trace
\* entry "tone_unchanged"; for every style name that is not concise, detailed
\* or technical the style stage gives the text it was given and the entry
\* "style_unchanged"; and neither raises an error: the transform of a text
\* that was not cancelled succeeds. The code takes the names constructor and
\* __proto__, which every object inherits, for registered.
C18_UnregisteredNamesLeaveTextUnchanged ==
    /\ (IsDefined(tSettled) /\ IsDefined(tText) /\ ~tAborted
            /\ (UnregisteredTone \/ UnregisteredStyle))
          => TransformOk
    /\ (TransformOk /\ UnregisteredTone) =>
          /\ TextAfterTone = TextAfterLength
          /\ EntryOf("tone") = [rule |-> "tone_unchanged"]
    /\ (TransformOk /\ UnregisteredStyle) =>
          /\ Some(tResult.text) = TextAfterTone
          /\ EntryOf("style") = [rule |-> "style_unchanged"]

(***************************************************************************)
(* The workers: request types                                              *)
(***************************************************************************)
\* The types the worker has a branch for.
TypesHandled == IF worker = "nlp" THEN NLPTypes ELSE {"transform", "analyze"}

\* Message i is a request of a type the worker does not handle.
OfUnknownType(i) ==
    ~IsCancel(trace[i].message) /\ trace[i].message.type \notin TypesHandled

\* C17: a request whose type the worker does not handle is answered, in the
\* turn that dispatched it, by one response with the error status and the
\* message "Unknown request type" and without a result, and its handling
\* leaves no registration and no timer; for the transform worker and for the
\* NLP worker. The NLP worker appends the type to the message, and posts no
\* response when the request has no payload.
C17_UnknownTypeAnswered ==
    \A i \in Handled :
        OfUnknownType(i) =>
            /\ trace[i].posted =
                  <<ErrorResponse(trace[i].message.id, "Unknown request type")>>
            /\ i = Len(trace) => DOMAIN controllers = {} /\ timers = {}

(***************************************************************************)
(* The analysis functions on their own                                     *)
(***************************************************************************)
Analyzed == IsDefined(aResult)
aKeywords == Val(aResult).keywords
aScore == Val(aResult).score
\* The number of keywords asked for.
aK == IF IsDefined(aMaxKeywords) THEN Val(aMaxKeywords) ELSE 10
\* How often a token occurs in the text, and where it occurs first.
Occurrences(w) ==
    Cardinality({j \in 1 .. Len(Tokenize(aText)) : Tokenize(aText)[j] = w})
FirstOccurrence(w) ==
    Least({j \in 1 .. Len(Tokenize(aText)) : Tokenize(aText)[j] = w})

\* C14: the keywords are at most K distinct lowercase tokens of the text, none
\* of length 3 or less and none a stop word, in the order of descending
\* occurrence count, tokens of equal count in the order of their first
\* occurrence in the text. The code lists a token made of digits before the
\* words of the same count that occur before it.
C14_KeywordsRankedByCountThenFirstSeen ==
    Analyzed =>
        /\ Len(aKeywords) <= aK
        /\ \A i \in 1 .. Len(aKeywords) :
              /\ Occurrences(aKeywords[i]) > 0
              /\ aKeywords[i] = ToLowerCase(aKeywords[i])
              /\ Len(aKeywords[i]) > 3
              /\ aKeywords[i] \notin STOPWORDS
        /\ \A i, j \in 1 .. Len(aKeywords) :
              i < j =>
                  /\ aKeywords[i] # aKeywords[j]
                  /\ Occurrences(aKeywords[i]) >= Occurrences(aKeywords[j])
                  /\ Occurrences(aKeywords[i]) = Occurrences(aKeywords[j])
                        => FirstOccurrence(aKeywords[i])
                              < FirstOccurrence(aKeywords[j])

\* A text without a word: empty, or white space only. Such a text has no
\* sentence either.
NoWords(t) == CharsOf(t) \subseteq Whitespace

\* C15: the readability score of every text is an integer from 0 to 100, and
\* it is 0 when the text has no sentences or no words, as the empty text and
\* the texts of white space only. The code scores such a text 100: the
\* sentences default to the whole text and splitting yields an empty word.
C15_ScoreInRangeAndZeroWithoutWords ==
    Analyzed =>
        /\ aScore \in 0 .. 100
        /\ NoWords(aText) => aScore = 0

\* The example asked for ten keywords, or for the default number.
ExampleAnalyzed == Analyzed /\ aText = ExampleText /\ aK = 10
Returned(w) == \E i \in 1 .. Len(aKeywords) : aKeywords[i] = w
RankedBefore(v, w) ==
    \E i, j \in 1 .. Len(aKeywords) :
        i < j /\ aKeywords[i] = v /\ aKeywords[j] = w
\* The words of more than three letters that occur once in the example.
SingleOccurrenceWords == {"brown", "jumps", "over", "lazy"}

\* C20: of "the quick brown fox jumps over the lazy dog quick fox" with K = 10
\* the keywords hold "quick", ranked before every word that occurs only once
\* (brown, jumps, over, lazy), each of which is returned; "fox", of three
\* letters, is not returned.
C20_QuickRanksFirstFoxDropped ==
    ExampleAnalyzed =>
        /\ Returned("quick")
        /\ \A w \in SingleOccurrenceWords : RankedBefore("quick", w)
        /\ ~Returned("fox")
C20_Witness ==
    /\ ExampleAnalyzed
    /\ aKeywords = <<"quick", "brown", "jumps", "over", "lazy">>
\* C20 as stated: both "quick" and "fox" are returned and ranked before every
\* word that occurs only once.
C20_QuickAndFoxRankFirst ==
    ExampleAnalyzed =>
        /\ Returned("quick")
        /\ Returned("fox")
        /\ \A w \in SingleOccurrenceWords :
              RankedBefore("quick", w) /\ RankedBefore("fox", w)


(***************************************************************************)
(* The action router                                                       *)
(***************************************************************************)
\* The flag of a feature in a stored whitelist: true when the hostname has
\* an entry whose features hold the feature with the value true.
FlagOn(whitelist, hostname, feature) ==
    /\ hostname \in DOMAIN whitelist
    /\ "features" \in DOMAIN whitelist[hostname]
    /\ feature \in DOMAIN whitelist[hostname].features
    /\ whitelist[hostname].features[feature] = TRUE

\* The calls that returned, by what they were.
GrantedRequest(r, hostname) ==
    /\ r.action = "requestSiteAccess"
    /\ r.hostname = hostname
    /\ r.granted = Some(TRUE)
DeniedRequest(r) == r.action = "requestSiteAccess" /\ r.granted = Some(FALSE)
FeatureEnabled(r, hostname, feature) ==
    /\ r.action = "enableFeature"
    /\ r.hostname = hostname
    /\ r.feature = Some(feature)
    /\ r.settlement = Fulfilled([success |-> TRUE])
\* enableFeature or disableFeature whose hostname had no entry in the
\* whitelist the handler read.
FeatureCallOffWhitelist(r) ==
    /\ r.action \in {"enableFeature", "disableFeature"}
    /\ r.hostname \notin DOMAIN Val(r.read)

\* C16: from the empty whitelist, a feature flag is true for a hostname only
\* if a granted requestSiteAccess added the hostname and a later enableFeature
\* turned the feature on; a granted requestSiteAccess leaves copyRewrite,
\* observers and autofill false, a denied one leaves the whitelist unchanged,
\* and enableFeature or disableFeature for a hostname not in the whitelist
\* fails with 'Site not whitelisted' and leaves the storage unchanged. The
\* code takes a hostname that names an inherited property for whitelisted.
C16_TwoStepOptIn ==
    /\ \A hostname \in Hostnames, feature \in FeatureNames :
          FlagOn(siteWhitelist, hostname, feature) =>
              \E i, j \in 1 .. Len(returned) :
                  /\ i < j
                  /\ GrantedRequest(returned[i], hostname)
                  /\ FeatureEnabled(returned[j], hostname, feature)
    /\ \A i \in 1 .. Len(returned) :
          LET r == returned[i]
          IN  /\ GrantedRequest(r, r.hostname) =>
                    \A feature \in FeatureNames :
                        ~FlagOn(r.storedAfter, r.hostname, feature)
              /\ DeniedRequest(r) => r.storedAfter = r.stored
              /\ FeatureCallOffWhitelist(r) =>
                    /\ r.settlement = Rejected("Site not whitelisted")
                    /\ r.storedAfter = r.stored


(***************************************************************************)
(* sanitizeURL                                                             *)
(***************************************************************************)
\* The argument parses as a URL of the scheme http or https.
ValidHttpURL(input) ==
    /\ IsDefined(ParseURL(input))
    /\ Val(ParseURL(input)).protocol \in {"http:", "https:"}

\* C19: sanitizeURL returns its argument unchanged for every valid http or
\* https URL, and the empty string for every other argument. The code returns
\* the serialization of the parsed URL, which differs from the argument when
\* the argument is not already in that form.
C19_SanitizeURLReturnsInputOrEmpty ==
    IsDefined(sanitized) =>
        Val(sanitized) = (IF ValidHttpURL(url) THEN url ELSE "")


(***************************************************************************)
(* The transform pipeline: the change ratio and the word counts            *)
(***************************************************************************)
\* The number of words of a text: its maximal runs of characters that are
\* not white space; 0 for a text that is empty or white space only.
WordCount(t) ==
    Cardinality({i \in 1 .. Len(t) :
                    /\ ~IsSpace(CharAt(t, i))
                    /\ (i = Len(t) \/ IsSpace(CharAt(t, i + 1)))})

\* |a - b| / max(a, b) in hundredths, rounded; 0 when both are 0.
RatioOfCounts(a, b) ==
    IF Max(a, b) = 0 THEN 0
    ELSE RoundRatio(100 * (IF a >= b THEN a - b ELSE b - a), Max(a, b))

\* C21: the change ratio of a successful transform is the difference of the
\* word counts of the original and the final text over the larger of the
\* two, rounded to two decimal places, and 0 when both counts are 0; a text
\* that is not empty and is reduced to the empty text has the ratio 1. The
\* code counts the pieces between runs of white space, of which the empty
\* text has one.
C21_ChangeRatioOfWordCounts ==
    TransformOk =>
        tResult.changeRatio =
            RatioOfCounts(WordCount(Val(tText)), WordCount(tResult.text))

(***************************************************************************)
(* The length stage with the length custom                                 *)
(***************************************************************************)
\* The sentences of the text the stage is given.
tSentences == Sentences(Val(tText))

\* customLength clamped to at least 1, and to the sentences there are; all of
\* them when customLength is absent.
CustomWanted ==
    IF IsDefined(tSettings.customLength)
    THEN Min(Max(1, Val(tSettings.customLength)), Len(tSentences))
    ELSE Len(tSentences)

\* C22: with the length custom the stage keeps the first customLength
\* sentences, customLength clamped to at least 1, and all sentences when
\* customLength is absent: for every integer, 0 and the negative ones
\* included, at least one sentence is kept and none is dropped from the
\* front. The code takes 0 for absent and hands a negative customLength to
\* slice, which then drops sentences from the end, down to none.
C22_CustomKeepsFirstSentences ==
    (TransformOk /\ tSettings.length = Some("custom")) =>
        /\ CustomWanted >= 1
        /\ tResult.text = JoinWithSpace(SubSeq(tSentences, 1, CustomWanted))

\* C23: the number in the trace entry of the length stage is the number of
\* sentences of the text the stage gives, for every mode and every text,
\* custom with a customLength above the number of sentences included. The
\* code writes customLength itself into the entry.
C23_TraceEntryCountsSentencesKept ==
    (TransformOk /\ Present(tSettings.length)
                 /\ ~Present(tSettings.tone) /\ ~Present(tSettings.style)) =>
        tResult.rulesApplied[1].sentences = Some(Len(Sentences(tResult.text)))

(***************************************************************************)
(* countSyllables                                                          *)
(***************************************************************************)
\* The letters of the token, lowercased.
aLetters ==
    Without(ToLowerCase(aText),
            CharsOf(ToLowerCase(aText)) \ CharsOf(LowerCaseLetters))

\* The maximal groups of vowels of a word, counted where each begins.
VowelGroups(word) ==
    Cardinality({i \in 1 .. Len(word) :
                    /\ CharAt(word, i) \in CharsOf("aeiouy")
                    /\ (i = 1 \/ CharAt(word, i - 1) \notin CharsOf("aeiouy"))})

\* The heuristic: the vowel groups, at least 1, one less for a final e, one
\* more for a final le in a word of more than two letters, at least 1.
Heuristic(word) ==
    Max(1, Max(1, VowelGroups(word))
            - (IF Len(word) >= 1 /\ CharAt(word, Len(word)) = "e" THEN 1 ELSE 0)
            + (IF Len(word) > 2 /\ SubSeq(word, Len(word) - 1, Len(word)) = "le"
               THEN 1 ELSE 0))

\* C24: countSyllables returns the value of the heuristic for every token
\* whose letters are more than three, and 1 for every token of three letters
\* or fewer, whatever the heuristic gives for it: 1 for "ago".
C24_HeuristicAboveThreeLetters ==
    IsDefined(aResult) =>
        Val(aResult).syllables =
            (IF Len(aLetters) <= 3 THEN 1 ELSE Heuristic(aLetters))
C24_Witness ==
    /\ IsDefined(aResult)
    /\ aText = "ago"
    /\ Heuristic(aLetters) = 2
    /\ Val(aResult).syllables = 1
\* C24 as stated: the value of the heuristic for every token, those of three
\* letters or fewer included.
C24_HeuristicForEveryToken ==
    IsDefined(aResult) => Val(aResult).syllables = Heuristic(aLetters)

(***************************************************************************)
(* The recency cache: evictOldest and the other mutations of the store     *)
(***************************************************************************)
\* The keys evictOldest has still to delete.
PendingVictims == {toDelete[i].cacheKey : i \in DOMAIN toDelete}

\* What holds of the store from evictOldest's scan to its return: it holds
\* entries of the scan only, with the access times of the scan; it has not
\* fallen below the capacity; every entry deleted so far was accessed no later
\* than every entry that stays.
EvictionUndisturbed ==
    /\ DOMAIN store \subseteq DOMAIN before
    /\ \A q \in DOMAIN store : store[q] = before[q]
    /\ Cardinality(DOMAIN store) >= Min(Cardinality(DOMAIN before), maxSize)
    /\ \A r \in Evicted : \A q \in DOMAIN store \ PendingVictims :
          before[r] <= before[q]

\* A step taken while evictOldest's transaction is open is a step of that
\* evictOldest: it adds no entry, refreshes none and starts no other scan.
StepOfTheOpenEviction ==
    evictPc = "scanned" =>
        /\ evictPc' \in {"scanned", "done"}
        /\ before' = before
        /\ DOMAIN store' \subseteq DOMAIN store
        /\ \A q \in DOMAIN store' : store'[q] = store[q]

CancelledErrors ==
    {"Transform cancelled", "Analysis cancelled", "Request cancelled"}

\* A transform or analyze request of a type its worker handles, with a payload
\* that has a text.
WellFormedRequest(message) ==
    /\ message.type \in {"transform", "analyze"}
    /\ ~Malformed(message)

\* C26: the signal of a request is not aborted while the request is handled,
\* no deadline timer gets to run, no response reports a cancelled request, and
\* every transform or analyze request with a well-formed payload is answered
\* with status ok, whatever cancels are posted before, with or after it.
C26_NoCancelNoDeadlineObserved ==
    /\ TimerNeverDue
    /\ pc = "awaiting" => trace[Len(trace)].controller \notin abortedSignals
    /\ \A i \in 1 .. Len(outbox) :
         IsDefined(outbox[i].error) => Val(outbox[i].error) \notin CancelledErrors
    /\ \A i \in Handled :
         WellFormedRequest(trace[i].message) => StatusesPosted(i) = {"ok"}

(***************************************************************************)
(* The router: actions on the whitelist that run at the same time          *)
(***************************************************************************)
\* removeSiteAccess for the hostname returned as call i, and no granted
\* requestSiteAccess for it returned after that.
RemovedAndNotAddedSince(hostname, i) ==
    /\ returned[i].action = "removeSiteAccess"
    /\ returned[i].hostname = hostname
    /\ \A j \in i + 1 .. Len(returned) : ~GrantedRequest(returned[j], hostname)

\* The waiting calls a step moved on: the one that left, or the one that is
\* at another await.
MovedOn ==
    {i \in 1 .. Len(calls) :
        \/ calls' = Without1(calls, i)
        \/ Len(calls') = Len(calls) /\ calls'[i] # calls[i]}

\* A step that changes the stored whitelist is the write of a handler that
\* read the whitelist it replaces.
WritesOverWhatItRead ==
    siteWhitelist' # siteWhitelist =>
        \E i \in MovedOn : calls[i].whitelist = Some(siteWhitelist)

\* C27: once removeSiteAccess for a hostname has returned, the stored
\* whitelist has no entry for the hostname until a granted requestSiteAccess
\* for it returns, whatever enableFeature and disableFeature calls were
\* waiting meanwhile; and every handler writes over the whitelist it read, so
\* that no write of another call is lost.
C27_WhitelistActionsOneAtATime ==
    /\ [](\A hostname \in Hostnames : \A i \in 1 .. Len(returned) :
            RemovedAndNotAddedSince(hostname, i)
                => hostname \notin DOMAIN siteWhitelist)
    /\ [][WritesOverWhatItRead]_vars

(***************************************************************************)
(* The two workers on the same analyze request                             *)
(***************************************************************************)
\* The promise of the analyze request handled by the worker of the name.
AnalyzeBy(name, request) ==
    IF name = "nlp" THEN processRequest(request, FALSE)
    ELSE performAnalyze(request, FALSE)

\* C28: an analyze request with a text is answered with the same keywords,
\* the same summary and the same score by the worker that handled it as by
\* the other worker.
C28_WorkersAnalyzeAlike ==
    \A i \in Handled :
        (trace[i].message.type = "analyze" /\ ~Malformed(trace[i].message)) =>
            \A name \in {"transform", "nlp"} :
                LET other == AnalyzeBy(name, trace[i].message).value.result
                IN  \A k \in 1 .. Len(trace[i].posted) :
                        trace[i].posted[k].result = other

(***************************************************************************)
(* The content script: what gets started on a page                        *)
(***************************************************************************)
\* The check returned the answer for the hostname of the page, with
\* enabled = true and the flag of the feature true.
CheckedOn(name) ==
    /\ location.protocol # "chrome-extension:"
    /\ IsDefined(permissions)
    /\ Val(permissions) = handleCheckPermissions(siteWhitelist, location.hostname)
    /\ Val(permissions).enabled = TRUE
    /\ name \in DOMAIN Val(permissions).features
    /\ Val(permissions).features[name] = TRUE

\* C29: the copy interceptor is initialized, and a copy listener registered,
\* only on a page whose permission check returned enabled = true and
\* copyRewrite = true for its hostname, and the scoped observer only when it
\* returned enabled = true and observers = true; a check that fails, has no
\* answer or says the site is not enabled starts nothing; and whatever calls
\* of init follow, document has one copy listener at most.
C29_FeaturesStartOnlyWhenEnabled ==
    /\ (copyInterceptor.initialized \/ copyInterceptor.listeners # <<>>)
          => CheckedOn("copyRewrite")
    /\ (scopedObserver.initialized \/ scopedObserver.observing > 0)
          => CheckedOn("observers")
    /\ Len(copyInterceptor.listeners) <= 1
    /\ scopedObserver.observing <= 1

\* A page with copyRewrite on and observers off, after init was called again:
\* one copy listener, no observer.
C29_Witness ==
    /\ bootPc = "initialized"
    /\ copyInterceptor.initialized
    /\ copyInterceptor.calls >= 2
    /\ Len(copyInterceptor.listeners) = 1
    /\ ~FeatureFlag(Val(permissions), "observers")
    /\ scopedObserver.observing = 0

(***************************************************************************)
(* The undo history: a push undone by a pop                                *)
(***************************************************************************)
\* What popAction returns for the stack a push has just made.
PoppedAfterPush == popAction(stack')

\* The stack before the push, without its oldest action.
WithoutOldest(s) ==
    [s EXCEPT !.actions = SubSeq(s.actions, 1, Len(s.actions) - 1)]

\* C30: popAction of pushAction(s, a) returns a and s when s holds fewer than
\* maxActions actions; when s holds maxActions actions, at least one, it
\* returns a and s without its oldest action, which is not s; and when
\* maxActions is 0 the push keeps nothing, and it returns null and the empty
\* stack.
C30_PopAfterPush ==
    [][Push =>
        LET a == UndoAction(pushCount')
            n == Len(stack.actions)
        IN  /\ n < maxActions =>
                /\ PoppedAfterPush.action = a
                /\ PoppedAfterPush.stack = stack
            /\ (n = maxActions /\ maxActions >= 1) =>
                /\ PoppedAfterPush.action = a
                /\ PoppedAfterPush.stack = WithoutOldest(stack)
                /\ PoppedAfterPush.stack # stack
            /\ (n = maxActions /\ maxActions = 0) =>
                /\ PoppedAfterPush.action = Null
                /\ PoppedAfterPush.stack = stack]_vars

\* A push onto a full stack of the default capacity, popped: the action
\* pushed last was returned and the stack is one action short.
C30_Witness ==
    /\ maxActions = DefaultMaxActions
    /\ pushCount > maxActions
    /\ lastPop = UndoAction(pushCount)
    /\ runPopped
    /\ Len(pushedRun) = pushCount
    /\ Len(stack.actions) = maxActions - 1

\* C30 as stated: the push-then-pop returns a for every capacity, 0 included.
C30_PopAfterPushReturnsPushed ==
    [][Push =>
        LET a == UndoAction(pushCount')
            n == Len(stack.actions)
        IN  /\ n < maxActions =>
                /\ PoppedAfterPush.action = a
                /\ PoppedAfterPush.stack = stack
            /\ n = maxActions =>
                /\ PoppedAfterPush.action = a
                /\ PoppedAfterPush.stack = WithoutOldest(stack)
                /\ PoppedAfterPush.stack # stack]_vars
====
